---- MODULE Spec2Model ----
(***************************************************************************)
(* The floating tag ball extension (src/floating_tag_ball).                *)
(*                                                                         *)
(* Privileged context (background.js): the SAVE_TAG message handler        *)
(* ("deliver"), the offline outbox kept in chrome.storage.local, the       *)
(* "outboxRetry" alarm with its period, and processOutbox ("flush").       *)
(*                                                                         *)
(* Page context (content.js): the region selector of startSelection, the   *)
(* tag modal of openTagModal with its save button, and rpc(), the call to  *)
(* the privileged context with its 5000 ms timer.                          *)
(*                                                                         *)
(* Every `await` of the source is a suspension point: the code between two *)
(* awaits is one atomic action, and a storage operation takes effect       *)
(* together with the continuation that follows it.  Handlers of different  *)
(* requests, timers, callbacks and user events interleave at these points; *)
(* no order is assumed among operations that are outstanding at the same   *)
(* time.  Storage operations themselves are taken not to fail.             *)
(*                                                                         *)
(* Specifications: Spec and FairSpec (outbox and retry cycle), RetrySpec   *)
(* (retry period under changing settings), SelectSpec (region selector),   *)
(* SaveSpec (tag modal, rpc and SAVE_TAG handler), RpcFairSpec (rpc with   *)
(* its timer).                                                             *)
(***************************************************************************)
EXTENDS Integers, Sequences, FiniteSets, TLC

\* Number of SAVE_TAG requests (each carries its own record).
MaxDeliver == 2
\* Number of processOutbox runs that can be in progress at the same time.
MaxFlush == 2

Delivers == 1..MaxDeliver
Flushes == 1..MaxFlush

\* Outcome of one fetch(): HTTP success, HTTP non-success, thrown exception.
FetchResults == {"ok", "fail", "throw"}

VARIABLES
  outbox,        \* chrome.storage.local "outbox": sequence of queued records
  alarm,         \* TRUE iff the chrome alarm "outboxRetry" exists
  alarmPeriod,   \* periodInMinutes of that alarm, 0 while there is none
  storedMinutes, \* settings.autoRetryMinutes as stored, Missing if absent
  retryPending,  \* scheduleRetry() calls whose storage.get callback has not run
  up,            \* TRUE once the collector accepts every POST
  accepted,      \* records for which some POST returned HTTP success
  dl,            \* SAVE_TAG handler invocations, one per request
  fl             \* processOutbox invocations

\* State of the privileged context (background.js).
bgVars == <<outbox, alarm, alarmPeriod, storedMinutes, retryPending, up,
           accepted, dl, fl>>

VARIABLES
  cachedSchema,  \* chrome.storage.local "cachedSchema", NoSchema for null
  fs,            \* FETCH_SCHEMA handler invocations, one per request
  hs             \* handler invocations of the other types, one per request

\* State of the other message handlers of the privileged context.
handlerVars == <<cachedSchema, fs, hs>>

VARIABLES
  listening,     \* TRUE iff the selection session's four listeners are attached
  overlayShown,  \* TRUE iff mask, box and tip of the session are in the document
  scrollLocked,  \* TRUE iff document.body.style.overflow is "hidden"
  startPt,       \* startPt of the session's closure, NoPt for null
  selRect,       \* selRect of the session's closure, NoRect for null
  isSelecting,   \* isSelecting of the session's closure
  pointer,       \* clientX, clientY of the last mousemove handled
  selEnd,        \* how the session ended: "open", "mouseup" or "escape"
  capture,       \* the captureScreenshot(rect) call of the current session
  modal,         \* the variable `modal`: a tag modal element, 0 for undefined
  created,       \* number of tag modal elements created so far
  opening,       \* openTagModal() calls waiting for ensureSchema()
  inDoc,         \* tag modal elements that are in the document
  btnDisabled,   \* tag modal elements whose save button is disabled
  rp,            \* rpc("SAVE_TAG", ...) calls, one per request
  sv,            \* save button click handlers, one per request
  cap,           \* the captureScreenshot(rect) call and its capture(rect)
  cropModal,     \* "none" for null, "loading" until #crop-image loaded, "ready"
  cropData,      \* the object cropData
  hidden,        \* tag modal elements with style.display "none"
  previewSrc,    \* src of the #tagball-preview image of each tag modal element
  payload,       \* payload.screenshot of each SAVE_TAG call
  cropHist,      \* what happened since the crop window was initialized
  cropCanvas     \* the canvas applyCrop() drew, until the next editor opens

\* State of the region selector (content.js, startSelection).
selVars == <<listening, overlayShown, scrollLocked, startPt, selRect,
             isSelecting, pointer, selEnd, capture>>

\* State of the tag modal and of its calls to the privileged context.
modalVars == <<modal, created, opening, inDoc, btnDisabled, rp, sv>>

\* State of the page context (content.js).
\* State of the capture strategies.
capVars == <<cap>>

\* State of the crop editor and of what it changes in the tag modals.
cropVars == <<cropModal, cropData, hidden, previewSrc, payload, cropHist,
              cropCanvas>>

imageVars == <<capVars, cropVars>>

pageVars == <<selVars, modalVars, imageVars>>

vars == <<bgVars, handlerVars, pageVars>>

Range(s) == {s[i] : i \in DOMAIN s}

Abs(n) == IF n < 0 THEN -n ELSE n
Min2(a, b) == IF a <= b THEN a ELSE b
Max2(a, b) == IF a >= b THEN a ELSE b

\* What a POST can answer: anything while the collector is unreliable.
Answers == IF up THEN {"ok"} ELSE FetchResults

IdleDeliver ==
  [pc |-> "idle", pRes |-> "none", sRes |-> "none", posted2 |-> FALSE,
   local |-> <<>>, outcome |-> "none", err |-> "none", wrote |-> FALSE,
   armReq |-> FALSE, sent |-> 0]

IdleFlush ==
  [pc |-> "idle", snap |-> <<>>, idx |-> 0, remain |-> <<>>, posts |-> <<>>,
   wrote |-> FALSE, alarmTouched |-> FALSE]

\* Largest autoRetryMinutes value that is stored.
MaxMinutes == 2

\* A stored autoRetryMinutes: an integer, or absent (undefined, null, NaN).
Missing == [has |-> FALSE, v |-> 0]
Minutes(n) == [has |-> TRUE, v |-> n]
StoredValues == {Missing} \cup {Minutes(n) : n \in (-1)..MaxMinutes}

\* FETCH_SCHEMA requests followed.
MaxFetch == 2
SchemaFetches == 1..MaxFetch

\* settings.schemaEndpoint as stored: empty (the default), blank, or a path
\* with spaces around it; and what trim() makes of it.
SchemaEndpointSettings == {"", "  ", " /custom "}
Trim(e) ==
  CASE e = "  " -> ""
    [] e = " /custom " -> "/custom"
    [] OTHER -> e

\* endpoints.push("/tag/schema", "/schema", "/tags/schema", "/sync/schema")
DefaultEndpoints == <<"/tag/schema", "/schema", "/tags/schema", "/sync/schema">>

\* A property of the response body: undefined, or an array.
Undefined == [defined |-> FALSE, items |-> <<>>]
Items(items) == [defined |-> TRUE, items |-> items]

\* Response bodies: not JSON, and objects with and without the category
\* collections head, tail, headTabs and tailTabs.
NotJson ==
  [json |-> FALSE, head |-> Undefined, tail |-> Undefined,
   headTabs |-> Undefined, tailTabs |-> Undefined]
Body(head, tail, headTabs, tailTabs) ==
  [json |-> TRUE, head |-> head, tail |-> tail,
   headTabs |-> headTabs, tailTabs |-> tailTabs]
SchemaBodies ==
  {NotJson,
   Body(Undefined, Undefined, Undefined, Undefined),
   Body(Items(<<"h1">>), Items(<<"t1">>), Undefined, Undefined),
   Body(Undefined, Undefined, Undefined, Items(<<"t2">>)),
   Body(Items(<<>>), Undefined, Undefined, Undefined)}

\* What fetch(url) gives: it throws, or a response with resp.ok, its status
\* and its body.
SchemaResponses ==
  {[thrown |-> TRUE, ok |-> FALSE, status |-> 0, body |-> NotJson],
   [thrown |-> FALSE, ok |-> FALSE, status |-> 404, body |-> NotJson]}
  \cup {[thrown |-> FALSE, ok |-> TRUE, status |-> 200, body |-> b] :
          b \in SchemaBodies}

\* A schema {head, tail}; NoSchema for null.
NoSchema == [null |-> TRUE, head |-> <<>>, tail |-> <<>>]
Schema(head, tail) == [null |-> FALSE, head |-> head, tail |-> tail]

\* The values of lastErr and of the error of a response.
NoError == "null"
FetchThrew == "TypeError: Failed to fetch"
JsonThrew == "SyntaxError: Unexpected token"
StorageThrew == "Error: QUOTA_BYTES quota exceeded"
NoEndpointFound == "no schema endpoint found and no cache"
HttpError(status) == IF status = 404 THEN "HTTP 404" ELSE "HTTP 500"

\* No response sent.
NotSent ==
  [sent |-> 0, ok |-> FALSE, schema |-> NoSchema, endpoint |-> "",
   error |-> NoError]

\* A FETCH_SCHEMA handler: its place, the local variables endpoints, lastErr
\* and schema of tryFetchSchema, the index of the endpoint of the current
\* iteration, its response r; and of its history the endpoints contacted,
\* the index of the first that answered with a valid schema (0: none) and
\* the cachedSchema its fallback read.
IdleFetch ==
  [pc |-> "idle", endpoints |-> <<>>, idx |-> 0, lastErr |-> NoError,
   schema |-> NoSchema, r |-> NotSent,
   contacted |-> <<>>, firstValid |-> 0, read |-> NoSchema]

\* Requests of the other recognised types followed.
MaxHandler == 1
Handlers == 1..MaxHandler

\* The recognised types besides SAVE_TAG and FETCH_SCHEMA.
HandlerTypes ==
  {"GET_SETTINGS", "SET_SETTINGS", "CLEAR_SCHEMA_CACHE", "CAPTURE",
   "TRANSLATE", "PING_SERVER", "REQUEST_DESKTOP_CAPTURE"}

\* const candidates = ["/health", "/ping", "/"]
PingCandidates == <<"/health", "/ping", "/">>

\* What chrome.tabs.captureVisibleTab does: it throws at the call, or calls
\* back with chrome.runtime.lastError, with no dataUrl, or with a dataUrl.
TabCaptures == {"throws", "lastError", "noDataUrl", "dataUrl"}

\* What the POST to /translate gives: FetchResults, and a success whose
\* body is not JSON.
TranslateResults == FetchResults \cup {"notJson"}

\* A handler invocation: its type and place, the index of the candidate of
\* pingServer, the number of sendResponse calls with the ok and the error of
\* the last; threw: a storage or network step of it has thrown; caught: an
\* exception has reached a catch of the listener.
IdleHandler ==
  [type |-> "none", pc |-> "idle", idx |-> 0, sent |-> 0, ok |-> FALSE,
   error |-> NoError, threw |-> FALSE, caught |-> FALSE]

\* Nothing is cached after installation and no request is in progress.
HandlerInit ==
  /\ cachedSchema = NoSchema
  /\ fs = [f \in SchemaFetches |-> IdleFetch]
  /\ hs = [h \in Handlers |-> IdleHandler]

\* Nothing is stored after installation.
BgInit ==
  /\ outbox = <<>>
  /\ alarm = FALSE
  /\ alarmPeriod = 0
  /\ storedMinutes = Missing
  /\ retryPending = 0
  /\ up = FALSE
  /\ accepted = {}
  /\ dl = [d \in Delivers |-> IdleDeliver]
  /\ fl = [f \in Flushes |-> IdleFlush]

-----------------------------------------------------------------------------
(* deliver(): the SAVE_TAG branch of chrome.runtime.onMessage *)

\* Faulty variant: an exception of the primary POST falls through to the
\* secondary endpoint.
AfterPrimary_CatchFallsThrough(r) ==
  IF r = "ok" THEN "done" ELSE "secondary"

\* Where the handler goes once the POST to /api/push has settled.
AfterPrimary(r) ==
  CASE r = "ok" -> "done"
    [] r = "fail" -> "secondary"
    [] r = "throw" -> "pushRead"

\* Faulty variant: the record is enqueued whatever /tag/add answered.
AfterSecondary_EnqueueAlways(r) == "pushRead"

\* Faulty variant: a rejection by /tag/add is answered as a final failure.
AfterSecondary_FinalFailure(r) ==
  CASE r = "ok" -> "json"
    [] r = "fail" -> "failed"
    [] r = "throw" -> "pushRead"

\* Where the handler goes once the POST to /tag/add has settled ("failed"
\* stands for the answer {ok: false, error} without queued, which this
\* branch of the handler never gives).
AfterSecondary(r) ==
  IF r = "ok" THEN "json" ELSE "pushRead"

\* Faulty variant: the copy is written back without the new item.
PushedOutbox_NoPush(local, item) == local

\* outbox.push(item) on the copy pushOutbox read.

PushedOutbox(local, item) == Append(local, item)

\* The message arrives; the handler awaits getSettings().
DeliverStart(d) ==
  /\ dl[d].pc = "idle"
  /\ IF d = 1 THEN TRUE ELSE dl[d - 1].pc # "idle"
  /\ dl' = [dl EXCEPT ![d].pc = "settings"]
  /\ UNCHANGED <<outbox, alarm, retryPending, up, accepted, fl>>
  /\ UNCHANGED <<alarmPeriod, storedMinutes>>
  /\ UNCHANGED <<handlerVars, pageVars>>

\* getSettings() resolves; the payload is built and POSTed to /api/push.
DeliverSettings(d) ==
  /\ dl[d].pc = "settings"
  /\ dl' = [dl EXCEPT ![d].pc = "primary"]
  /\ UNCHANGED <<outbox, alarm, retryPending, up, accepted, fl>>
  /\ UNCHANGED <<alarmPeriod, storedMinutes>>
  /\ UNCHANGED <<handlerVars, pageVars>>

\* The POST to /api/push settles with r.
DeliverPrimary(d, r) ==
  /\ dl[d].pc = "primary"
  /\ r \in Answers
  /\ LET next == AfterPrimary(r) IN
     dl' = [dl EXCEPT ![d].pc = next,
                      ![d].pRes = r,
                      ![d].posted2 = (next = "secondary"),
                      ![d].outcome = IF next = "done" THEN "delivered" ELSE "none",
                      ![d].sent = IF next = "done" THEN @ + 1 ELSE @,
                      ![d].err = IF r = "throw" THEN "primary_exception" ELSE "none"]
  /\ accepted' = IF r = "ok" THEN accepted \cup {d} ELSE accepted
  /\ UNCHANGED <<outbox, alarm, retryPending, up, fl>>
  /\ UNCHANGED <<alarmPeriod, storedMinutes>>
  /\ UNCHANGED <<handlerVars, pageVars>>

\* The POST to /tag/add settles with r.
DeliverSecondary(d, r) ==
  /\ dl[d].pc = "secondary"
  /\ r \in Answers
  /\ LET next == AfterSecondary(r) IN
     dl' = [dl EXCEPT ![d].pc = IF next = "failed" THEN "done" ELSE next,
                      ![d].sRes = r,
                      ![d].outcome = IF next = "failed" THEN "failed" ELSE "none",
                      ![d].sent = IF next = "failed" THEN @ + 1 ELSE @,
                      ![d].err = CASE r = "throw" -> "secondary_exception"
                                   [] r = "fail" -> "HTTP_status"
                                   [] OTHER -> "none"]
  /\ accepted' = IF r = "ok" THEN accepted \cup {d} ELSE accepted
  /\ UNCHANGED <<outbox, alarm, retryPending, up, fl>>
  /\ UNCHANGED <<alarmPeriod, storedMinutes>>
  /\ UNCHANGED <<handlerVars, pageVars>>

\* tagResp.json().catch(...) resolves; sendResponse({ok: true, data}).
DeliverJson(d) ==
  /\ dl[d].pc = "json"
  /\ dl' = [dl EXCEPT ![d].pc = "done", ![d].outcome = "delivered",
                      ![d].sent = @ + 1]
  /\ UNCHANGED <<outbox, alarm, retryPending, up, accepted, fl>>
  /\ UNCHANGED <<alarmPeriod, storedMinutes>>
  /\ UNCHANGED <<handlerVars, pageVars>>

\* catch: pushOutbox(payload) starts; its getSettings() resolves with the
\* stored outbox.
DeliverPushRead(d) ==
  /\ dl[d].pc = "pushRead"
  /\ dl' = [dl EXCEPT ![d].pc = "pushWrite", ![d].local = outbox]
  /\ UNCHANGED <<outbox, alarm, retryPending, up, accepted, fl>>
  /\ UNCHANGED <<alarmPeriod, storedMinutes>>
  /\ UNCHANGED <<handlerVars, pageVars>>

\* storage.set({outbox}) takes effect; scheduleRetry() is called; the
\* handler answers {ok: false, queued: true, error} and pushOutbox's copy of
\* the Outbox goes out of scope.
DeliverPushWrite(d) ==
  /\ dl[d].pc = "pushWrite"
  /\ outbox' = PushedOutbox(dl[d].local, d)
  /\ retryPending' = retryPending + 1
  /\ dl' = [dl EXCEPT ![d].pc = "done", ![d].outcome = "queued",
                      ![d].local = <<>>,
                      ![d].wrote = TRUE, ![d].armReq = TRUE,
                      ![d].sent = @ + 1]
  /\ UNCHANGED <<alarm, up, accepted, fl>>
  /\ UNCHANGED <<alarmPeriod, storedMinutes>>
  /\ UNCHANGED <<handlerVars, pageVars>>

\* Faulty variant: the stored value is used as it is.
PeriodFor_Unclamped(stored) == IF stored.has THEN stored.v ELSE 1

\* Math.max(1, settings.autoRetryMinutes || 1)
PeriodFor(stored) ==
  Max2(1, IF ~stored.has \/ stored.v = 0 THEN 1 ELSE stored.v)

\* The SET_SETTINGS handler stores the settings object it was sent.
SetSettings(stored) ==
  /\ storedMinutes' = stored
  /\ storedMinutes' # storedMinutes
  /\ UNCHANGED <<outbox, alarm, alarmPeriod, retryPending, up, accepted, dl,
                 fl>>
  /\ UNCHANGED <<handlerVars, pageVars>>

\* The options page's save button: an unparsable input gives NaN.
OptionsMinutes(input) ==
  IF input.has THEN Minutes(Max2(1, input.v)) ELSE Missing

\* The storage.get callback of one scheduleRetry() call runs:
\* chrome.alarms.create("outboxRetry", ...).
ScheduleRetryCallback ==
  /\ retryPending > 0
  /\ retryPending' = retryPending - 1
  /\ alarm' = TRUE
  /\ alarmPeriod' = PeriodFor(storedMinutes)
  /\ UNCHANGED storedMinutes
  /\ UNCHANGED <<outbox, up, accepted, dl, fl>>
  /\ UNCHANGED <<handlerVars, pageVars>>

-----------------------------------------------------------------------------
(* flush(): processOutbox, started by the alarm *)

\* Faulty variant: no early return, an empty Outbox is written back.
FlushAfterRead_NoEarlyReturn(snap) == IF snap = <<>> THEN "write" ELSE "primary"

\* if (!outbox?.length) return;

FlushAfterRead(snap) == IF snap = <<>> THEN "done" ELSE "primary"

\* Faulty variant: retained items are put in front.
Retain_Front(remain, item) == <<item>> \o remain

\* remain.push(item)

Retain(remain, item) == Append(remain, item)

\* if (!remain.length) chrome.alarms.clear("outboxRetry")
ClearsAlarm(remain) == remain = <<>>

\* The loop moves to the next item, or leaves the loop and issues the write.
Advance(f) == IF fl[f].idx = Len(fl[f].snap) THEN "write" ELSE "primary"

\* The alarm fires; the listener calls processOutbox(), which awaits
\* getSettings().
AlarmFires(f) ==
  /\ alarm
  /\ fl[f].pc \in {"idle", "done"}
  /\ \A g \in Flushes : g < f => fl[g].pc \notin {"idle", "done"}
  /\ fl' = [fl EXCEPT ![f] = [IdleFlush EXCEPT !.pc = "read"]]
  /\ UNCHANGED <<outbox, alarm, retryPending, up, accepted, dl>>
  /\ UNCHANGED <<alarmPeriod, storedMinutes>>
  /\ UNCHANGED <<handlerVars, pageVars>>

\* getSettings() resolves with the stored outbox.
FlushRead(f) ==
  /\ fl[f].pc = "read"
  /\ fl' = [fl EXCEPT ![f].pc = FlushAfterRead(outbox),
                      ![f].snap = outbox,
                      ![f].idx = IF outbox = <<>> THEN 0 ELSE 1]
  /\ UNCHANGED <<outbox, alarm, retryPending, up, accepted, dl>>
  /\ UNCHANGED <<alarmPeriod, storedMinutes>>
  /\ UNCHANGED <<handlerVars, pageVars>>

\* The POST of the current item to /api/push settles with r.
FlushPrimary(f, r) ==
  /\ fl[f].pc = "primary"
  /\ r \in Answers
  /\ LET item == fl[f].snap[fl[f].idx] IN
     /\ fl' = [fl EXCEPT
          ![f].posts = Append(@, <<item, 1, r>>),
          ![f].pc = IF r = "fail" THEN "secondary" ELSE Advance(f),
          ![f].idx = IF r = "fail" \/ Advance(f) = "write" THEN @ ELSE @ + 1,
          ![f].remain = IF r = "throw" THEN Retain(@, item) ELSE @]
     /\ accepted' = IF r = "ok" THEN accepted \cup {item} ELSE accepted
  /\ UNCHANGED <<outbox, alarm, retryPending, up, dl>>
  /\ UNCHANGED <<alarmPeriod, storedMinutes>>
  /\ UNCHANGED <<handlerVars, pageVars>>

\* The POST of the current item to /tag/add settles with r.
FlushSecondary(f, r) ==
  /\ fl[f].pc = "secondary"
  /\ r \in Answers
  /\ LET item == fl[f].snap[fl[f].idx] IN
     /\ fl' = [fl EXCEPT
          ![f].posts = Append(@, <<item, 2, r>>),
          ![f].pc = Advance(f),
          ![f].idx = IF Advance(f) = "write" THEN @ ELSE @ + 1,
          ![f].remain = IF r = "ok" THEN @ ELSE Retain(@, item)]
     /\ accepted' = IF r = "ok" THEN accepted \cup {item} ELSE accepted
  /\ UNCHANGED <<outbox, alarm, retryPending, up, dl>>
  /\ UNCHANGED <<alarmPeriod, storedMinutes>>
  /\ UNCHANGED <<handlerVars, pageVars>>

\* storage.set({outbox: remain}) takes effect; the alarm is cleared when
\* nothing remains.  The run returns: its snapshot and loop state go out of
\* scope; what it wrote stays recorded in remain until the slot runs again.
FlushWrite(f) ==
  /\ fl[f].pc = "write"
  /\ outbox' = fl[f].remain
  /\ alarm' = IF ClearsAlarm(fl[f].remain) THEN FALSE ELSE alarm
  /\ alarmPeriod' = IF ClearsAlarm(fl[f].remain) THEN 0 ELSE alarmPeriod
  /\ UNCHANGED storedMinutes
  /\ fl' = [fl EXCEPT ![f].pc = "done", ![f].wrote = TRUE,
                      ![f].snap = <<>>, ![f].idx = 0, ![f].posts = <<>>,
                      ![f].alarmTouched = ClearsAlarm(fl[f].remain)]
  /\ UNCHANGED <<retryPending, up, accepted, dl>>
  /\ UNCHANGED <<handlerVars, pageVars>>

-----------------------------------------------------------------------------
(* environment *)

\* From now on the collector accepts every POST.
CollectorRecovers ==
  /\ ~up
  /\ up' = TRUE
  /\ UNCHANGED <<outbox, alarm, retryPending, accepted, dl, fl>>
  /\ UNCHANGED <<alarmPeriod, storedMinutes>>
  /\ UNCHANGED <<handlerVars, pageVars>>

-----------------------------------------------------------------------------
(* Page context (src/floating_tag_ball/content.js): region selection *)

\* Mouse positions are sampled on a grid: coordinate i * PointerStride for
\* i in 0..GridMax, on both axes.
GridMax == 3
PointerStride == 5

\* selRect.w < 10 || selRect.h < 10
MinSelectionSize == 10

Coords == {i * PointerStride : i \in 0..GridMax}
\* clientX, clientY of a mouse event inside the viewport.
Points == Coords \X Coords
\* The viewport: every sampled position lies inside it.
SurfaceW == GridMax * PointerStride + 1
SurfaceH == GridMax * PointerStride + 1

NoPt == <<-1, -1>>
NoRect == [x |-> -1, y |-> -1, w |-> -1, h |-> -1]
NoCapture == [state |-> "none", rect |-> NoRect, calls |-> 0]

\* Number of tag modal elements that are created.
MaxModal == 2
Modals == 1..MaxModal
\* Number of save attempts made from tag modals; attempt c is answered by
\* SAVE_TAG handler c.
MaxCall == 1
Calls == 1..MaxCall

\* What a call settles with: a response object (resolve) or an Error
\* (reject).  error is the text of response.error or of the Error.
NoValue == [kind |-> "none", ok |-> FALSE, queued |-> FALSE, error |-> "none"]
Rejection(message) ==
  [kind |-> "error", ok |-> FALSE, queued |-> FALSE, error |-> message]

IdleRpc ==
  [st |-> "idle", timer |-> "none", cb |-> "none", value |-> NoValue,
   settles |-> 0]

IdleSave ==
  [owner |-> 0, phase |-> "none", shown |-> "none", closer |-> "none",
   stale |-> FALSE]

\* Ratios between the size of the tab snapshot and the size of the viewport,
\* in halves: 2 is a device pixel ratio of 1, 3 of 1.5, 4 of 2.
MaxPixelRatio == 2
HalfRatios == 2..(2 * MaxPixelRatio)

\* Sides of the regions handed to captureScreenshot: what the selector
\* produces on the sampled grid (w, h >= 10).
SelectionSizes == {c \in Coords : c >= MinSelectionSize}
CaptureRects ==
  {[x |-> p[1], y |-> p[2], w |-> s, h |-> s] :
     p \in Points, s \in SelectionSizes}

\* Messages of the Errors of the capture module.
TabCaptureFailed == "tab capture failed"
ImageLoadFailed == "snapshot image failed to load"
NativeUnavailable == "native capture api unavailable"
CaptureFailed == "capture failed"
CtxNotDefined == "ctx is not defined"
CanvasError == "canvas error"

\* Answers of the privileged context to {type: 'CAPTURE'}: undefined (the
\* port closed), {ok: false, error}, {ok: true} without a raster, and
\* {ok: true, dataUrl}.
CaptureResponses ==
  { [defined |-> FALSE, ok |-> FALSE, dataUrl |-> FALSE, error |-> ""],
    [defined |-> TRUE, ok |-> FALSE, dataUrl |-> FALSE, error |-> ""],
    [defined |-> TRUE, ok |-> FALSE, dataUrl |-> FALSE,
     error |-> "tabs cannot be captured"],
    [defined |-> TRUE, ok |-> TRUE, dataUrl |-> FALSE, error |-> ""],
    [defined |-> TRUE, ok |-> TRUE, dataUrl |-> TRUE, error |-> ""] }

NoSource == [sx |-> 0, sy |-> 0, sw |-> 0, sh |-> 0]
\* What a strategy ends with: an Error thrown, or an image.
Thrown(message) ==
  [kind |-> "thrown", message |-> message, w |-> 0, h |-> 0,
   src |-> NoSource]
Image(w, h, src) ==
  [kind |-> "image", message |-> "", w |-> w, h |-> h, src |-> src]

\* The promise of capture(rect) and what it settled with.
NoResult ==
  [settled |-> "none", success |-> FALSE, error |-> "", w |-> 0, h |-> 0,
   src |-> NoSource]

\* A captureScreenshot call: tried lists the strategies attempted, last is
\* what the last of them ended with, natural the size of the snapshot.
IdleCapture ==
  [pc |-> "idle", rect |-> NoRect, supported |-> FALSE, tried |-> <<>>,
   canvasThrew |-> FALSE,
   natural |-> [w |-> 0, h |-> 0], last |-> Thrown(""), out |-> NoResult,
   flow |-> "none"]

\* Pointer positions in the crop editor: clientX, clientY of its mouse
\* events, i * CropStride with i in 0..CropGrid on both axes.
CropGrid == 2
CropStride == 30
CropCoords == {i * CropStride : i \in 0..CropGrid}
CropPoints == CropCoords \X CropCoords

\* getBoundingClientRect() of #crop-area: its left and top, and the width of
\* its border on each side.
AreaLeft == 0
AreaTop == 0
AreaBorder == 2

\* The eight resize handles.
Handles == {"nw", "n", "ne", "e", "se", "s", "sw", "w"}
NoHandle == "null"

\* Images and windows of the interactive sessions: naturalWidth and
\* naturalHeight of the image, innerWidth and innerHeight of the window.
SessionImages == {[w |-> 60, h |-> 60], [w |-> 60, h |-> 20]}
SessionWindows == {[w |-> 100, h |-> 100]}

\* The capture of a small selection: an image that every window shows
\* enlarged.
SmallImages == {[w |-> 20, h |-> 20]}

\* Images and windows for the initial crop window: sides in steps of
\* ImageStep and WindowStep.
MaxImageSteps == 4
ImageStep == 300
MaxWindowSteps == 4
WindowStep == 500
AllImages ==
  {[w |-> i * ImageStep, h |-> j * ImageStep] :
     i, j \in 1..MaxImageSteps}
  \cup SessionImages \cup SmallImages
AllWindows ==
  {[w |-> i * WindowStep, h |-> j * WindowStep] :
     i, j \in 1..MaxWindowSteps}
  \cup SessionWindows

\* The images of a tag modal: the one it was opened with and a crop of it.
OriginalImage == "original"
CroppedImage == "cropped"
NoImage == "none"

\* let cropData = {...}
InitialCropData ==
  [startX |-> 0, startY |-> 0, cropX |-> 0, cropY |-> 0,
   cropWidth |-> 200, cropHeight |-> 200,
   isDragging |-> FALSE, isResizing |-> FALSE, isDrawing |-> FALSE,
   resizeHandle |-> NoHandle,
   imageWidth |-> 0, imageHeight |-> 0,
   containerWidth |-> 0, containerHeight |-> 0]

\* Pointer-downs followed in one editor between two initializations of the
\* crop window.
MaxPointerDown == 2

\* No crop window computed yet.
NoWindow == [x |-> 0, y |-> 0, width |-> 0, height |-> 0, w |-> 0, h |-> 0]

\* What happened in the editor since the crop window was initialized: the
\* number of pointer-downs, resizeOnly while every interaction was a Resize,
\* fresh while the window is as initialized, and the last Draw interaction
\* with its down-point.  Since the image loaded: `initial`, the crop window
\* computed then with the size of the browser window it was computed for,
\* and `reset`, the resets since the last pointer-down ("first" for one
\* that undid a change of the crop window, "again" for one after it).
NoHistory ==
  [downs |-> 0, fresh |-> FALSE, resizeOnly |-> FALSE, draw |-> "none",
   downX |-> 0, downY |-> 0, initial |-> NoWindow, reset |-> "none"]

\* No applyCrop() has drawn a canvas yet.
NoCanvas == [drawn |-> FALSE]

PageInit ==
  /\ cap = IdleCapture
  /\ cropModal = "none"
  /\ cropData = InitialCropData
  /\ hidden = {}
  /\ previewSrc = [m \in Modals |-> OriginalImage]
  /\ payload = [c \in Calls |-> NoImage]
  /\ cropHist = NoHistory
  /\ cropCanvas = NoCanvas
  /\ listening = FALSE
  /\ overlayShown = FALSE
  /\ scrollLocked = FALSE
  /\ startPt = NoPt
  /\ selRect = NoRect
  /\ isSelecting = FALSE
  /\ pointer = NoPt
  /\ selEnd = "open"
  /\ capture = NoCapture
  /\ modal = 0
  /\ created = 0
  /\ opening = 0
  /\ inDoc = {}
  /\ btnDisabled = {}
  /\ rp = [c \in Calls |-> IdleRpc]
  /\ sv = [c \in Calls |-> IdleSave]

\* Faulty variant: the side follows the horizontal distance only.
SquareSize_WidthOnly(width, height) == width

\* const size = Math.max(width, height);
SquareSize(width, height) == Max2(width, height)

\* The candidate Rect of onMouseMove for anchor a and mouse position p.
CandidateRect(a, p) ==
  LET width == Abs(p[1] - a[1])
      height == Abs(p[2] - a[2])
      size == SquareSize(width, height)
      endX == a[1] + (IF p[1] >= a[1] THEN 1 ELSE -1) * size
      endY == a[2] + (IF p[2] >= a[2] THEN 1 ELSE -1) * size
  IN [x |-> Min2(a[1], endX), y |-> Min2(a[2], endY), w |-> size, h |-> size]

\* Faulty variant: only a missing Rect cancels.
Discards_NoMinimum(selecting, rect) == ~selecting \/ rect = NoRect

\* if (!isSelecting || !selRect || selRect.w < 10 || selRect.h < 10)
Discards(selecting, rect) ==
  \/ ~selecting
  \/ rect = NoRect
  \/ rect.w < MinSelectionSize
  \/ rect.h < MinSelectionSize

\* Faulty variant: cleanup() leaves the document listeners attached.
ListeningAfterCleanup_Leaked == TRUE

\* removeEventListener for mousedown, mousemove, mouseup and keydown
ListeningAfterCleanup == FALSE

\* cleanup(): mask, box and tip leave the document, the scroll lock is
\* lifted, the listeners are removed.
Cleanup ==
  /\ overlayShown' = FALSE
  /\ scrollLocked' = FALSE
  /\ listening' = ListeningAfterCleanup

\* The floating button is clicked: startSelection() opens a new session with
\* a fresh closure.  The mouseup that precedes the click reaches document, so
\* a session that was still listening has ended by then.
StartSelection ==
  /\ ~listening
  /\ listening' = TRUE
  /\ overlayShown' = TRUE
  /\ scrollLocked' = TRUE
  /\ startPt' = NoPt
  /\ selRect' = NoRect
  /\ isSelecting' = FALSE
  /\ selEnd' = "open"
  /\ capture' = NoCapture
  /\ UNCHANGED pointer
  /\ UNCHANGED modalVars
  /\ UNCHANGED imageVars
  /\ UNCHANGED <<bgVars, handlerVars>>

\* mousedown on the mask.
OnMouseDown(p) ==
  /\ listening /\ overlayShown
  /\ startPt' = p
  /\ isSelecting' = TRUE
  /\ UNCHANGED <<listening, overlayShown, scrollLocked, selRect,
                 pointer, selEnd, capture>>
  /\ UNCHANGED modalVars
  /\ UNCHANGED imageVars
  /\ UNCHANGED <<bgVars, handlerVars>>

\* mousemove on document.
OnMouseMove(p) ==
  /\ listening
  /\ pointer' = p
  /\ selRect' = IF ~isSelecting \/ startPt = NoPt
                THEN selRect
                ELSE CandidateRect(startPt, p)
  /\ UNCHANGED <<listening, overlayShown, scrollLocked, startPt,
                 isSelecting, selEnd, capture>>
  /\ UNCHANGED modalVars
  /\ UNCHANGED imageVars
  /\ UNCHANGED <<bgVars, handlerVars>>

\* mouseup on document: cancel, or cleanup() and captureScreenshot(selRect).
\* The handler does not read the event.
OnMouseUp ==
  /\ listening
  /\ selEnd' = "mouseup"
  /\ Cleanup
  /\ capture' = IF Discards(isSelecting, selRect)
                THEN capture
                ELSE [state |-> "running", rect |-> selRect,
                      calls |-> capture.calls + 1]
  /\ UNCHANGED <<startPt, selRect, isSelecting, pointer>>
  /\ UNCHANGED modalVars
  /\ UNCHANGED imageVars
  /\ UNCHANGED <<bgVars, handlerVars>>

\* keydown on document with key Escape.
OnEscape ==
  /\ listening
  /\ selEnd' = "escape"
  /\ Cleanup
  /\ UNCHANGED <<startPt, selRect, isSelecting, pointer, capture>>
  /\ UNCHANGED modalVars
  /\ UNCHANGED imageVars
  /\ UNCHANGED <<bgVars, handlerVars>>

\* captureScreenshot settles: the tag modal is opened, or the error tip is
\* shown.
CaptureSettles(ok) ==
  /\ capture.state = "running"
  /\ capture' = [capture EXCEPT !.state = IF ok THEN "modal" ELSE "error"]
  /\ UNCHANGED <<listening, overlayShown, scrollLocked, startPt,
                 selRect, isSelecting, pointer, selEnd>>
  /\ UNCHANGED modalVars
  /\ UNCHANGED imageVars
  /\ UNCHANGED <<bgVars, handlerVars>>

-----------------------------------------------------------------------------
(* Page context: rpc() and the tag modal *)

\* prefill.imageDataUrl of a tag modal: no statement assigns it.
PrefillImage(m) == OriginalImage

\* Faulty variant: a later resolve or reject replaces the outcome.
Settle_Overwrites(call, st, value) ==
  [call EXCEPT !.st = st, !.value = value, !.settles = @ + 1]

\* resolve(...) or reject(...) of the Promise that rpc() returns: only the
\* first call settles it.
Settle(call, st, value) ==
  IF call.st = "pending"
  THEN [call EXCEPT !.st = st, !.value = value, !.settles = @ + 1]
  ELSE call

\* clearTimeout(timeout)
ClearTimeout(timer) == IF timer = "armed" THEN "cleared" ELSE timer

\* Faulty variant: a triggered lastError is not looked at.
CallbackSettles_IgnoresLastError(lastError) == "resolved"

\* if (chrome.runtime.lastError) reject(...) else resolve(response)
CallbackSettles(lastError) == IF lastError THEN "rejected" ELSE "resolved"

\* Faulty variant: no timer is set.
TimerAfterCall_NotSet == "none"

\* const timeout = setTimeout(() => { reject(...) }, 5000)
TimerAfterCall == "armed"

\* What the SAVE_TAG handler d has passed to sendResponse: {ok: true, ...},
\* {ok: false, queued: true, error} or {ok: false, error}.
ResponseOf(d) ==
  [kind |-> "response",
   ok |-> dl[d].outcome = "delivered",
   queued |-> dl[d].outcome = "queued",
   error |-> IF dl[d].outcome = "delivered" THEN "none" ELSE dl[d].err]

\* openTagModal(prefill) is called, after a capture or from the context
\* menu: the element `modal` refers to is removed and ensureSchema() is
\* awaited.
OpenTagModalStart ==
  /\ created + opening < MaxModal
  /\ opening' = opening + 1
  /\ inDoc' = inDoc \ {modal}
  /\ UNCHANGED <<modal, created, btnDisabled, rp, sv>>
  /\ UNCHANGED selVars
  /\ UNCHANGED imageVars
  /\ UNCHANGED <<bgVars, handlerVars>>

\* ensureSchema() has settled: a new element is created, assigned to `modal`
\* and appended to the document.
OpenTagModalFinish ==
  /\ opening > 0
  /\ opening' = opening - 1
  /\ created' = created + 1
  /\ modal' = created + 1
  /\ inDoc' = inDoc \cup {created + 1}
  /\ UNCHANGED <<btnDisabled, rp, sv>>
  /\ UNCHANGED selVars
  /\ UNCHANGED imageVars
  /\ UNCHANGED <<bgVars, handlerVars>>

\* The close or the cancel button of element m is clicked: modal.remove().
CloseClick(m) ==
  /\ m \in inDoc
  /\ m \notin hidden
  /\ inDoc' = inDoc \ {modal}
  /\ UNCHANGED <<modal, created, opening, btnDisabled, rp, sv>>
  /\ UNCHANGED selVars
  /\ UNCHANGED imageVars
  /\ UNCHANGED <<bgVars, handlerVars>>

\* The save button of element m is clicked: the button is disabled and
\* rpc("SAVE_TAG", {payload}) is called, which arms the 5000 ms timer and
\* sends the message.
SaveClick(m, c) ==
  /\ m \in inDoc
  /\ m \notin hidden
  /\ m \notin btnDisabled
  /\ rp[c].st = "idle"
  /\ \A b \in Calls : b < c => rp[b].st # "idle"
  /\ btnDisabled' = btnDisabled \cup {m}
  /\ rp' = [rp EXCEPT ![c] = [st |-> "pending", timer |-> TimerAfterCall,
                              cb |-> "waiting", value |-> NoValue,
                              settles |-> 0]]
  /\ sv' = [sv EXCEPT ![c] = [owner |-> m, phase |-> "awaiting",
                              shown |-> "none", closer |-> "none",
                              stale |-> FALSE]]
  /\ payload' = [payload EXCEPT ![c] = PrefillImage(m)]
  /\ UNCHANGED <<modal, created, opening, inDoc>>
  /\ UNCHANGED selVars
  /\ UNCHANGED <<capVars, cropModal, cropData, hidden, previewSrc, cropHist,
                 cropCanvas>>
  /\ UNCHANGED <<bgVars, handlerVars>>

\* The message of call c reaches the onMessage listener of the privileged
\* context.
MessageArrives(c) ==
  /\ rp[c].st # "idle"
  /\ DeliverStart(c)

\* The 5000 ms timer of call c fires: reject(new Error('RPC timeout')).
RpcTimeout(c) ==
  /\ rp[c].timer = "armed"
  /\ rp' = [rp EXCEPT ![c] = Settle([@ EXCEPT !.timer = "fired"],
                                    "rejected", Rejection("RPC timeout"))]
  /\ UNCHANGED <<modal, created, opening, inDoc, btnDisabled, sv>>
  /\ UNCHANGED selVars
  /\ UNCHANGED imageVars
  /\ UNCHANGED <<bgVars, handlerVars>>

\* The sendMessage callback of call c runs with the handler's response.
RpcResponse(c) ==
  /\ rp[c].cb = "waiting"
  /\ dl[c].pc = "done"
  /\ rp' = [rp EXCEPT ![c] =
              Settle([@ EXCEPT !.cb = "response",
                               !.timer = ClearTimeout(@)],
                     CallbackSettles(FALSE), ResponseOf(c))]
  /\ UNCHANGED <<modal, created, opening, inDoc, btnDisabled, sv>>
  /\ UNCHANGED selVars
  /\ UNCHANGED imageVars
  /\ UNCHANGED <<bgVars, handlerVars>>

\* The sendMessage callback of call c runs with chrome.runtime.lastError
\* set: the privileged context was not reached or its port closed.
RpcLastError(c) ==
  /\ rp[c].cb = "waiting"
  /\ rp' = [rp EXCEPT ![c] =
              Settle([@ EXCEPT !.cb = "lastError",
                               !.timer = ClearTimeout(@)],
                     CallbackSettles(TRUE), Rejection("lastError"))]
  /\ UNCHANGED <<modal, created, opening, inDoc, btnDisabled, sv>>
  /\ UNCHANGED selVars
  /\ UNCHANGED imageVars
  /\ UNCHANGED <<bgVars, handlerVars>>

\* What the save handler shows for the settled call: "closing" is the
\* 400 ms timer that removes the modal, "none" the rejected await that
\* leaves the try block through finally.
ShownFor(call) ==
  CASE call.st = "rejected" -> "none"
    [] call.value.ok -> "closing"
    [] call.value.queued -> "alert_queued"
    [] OTHER -> "alert_failed"

\* The await of the save handler of call c continues: the outcome is shown
\* and, in finally, the save button is enabled again.  modal.remove() acts
\* on the element the variable `modal` refers to at that moment.
SaveContinues(c) ==
  /\ sv[c].phase = "awaiting"
  /\ rp[c].st \in {"resolved", "rejected"}
  /\ LET shown == ShownFor(rp[c]) IN
     /\ sv' = [sv EXCEPT ![c].phase = "handled",
                         ![c].shown = shown,
                         ![c].stale = sv[c].owner \notin inDoc,
                         ![c].closer = IF shown = "closing" THEN "armed"
                                       ELSE "none"]
     /\ inDoc' = IF shown = "alert_queued" THEN inDoc \ {modal} ELSE inDoc
  /\ btnDisabled' = btnDisabled \ {sv[c].owner}
  /\ UNCHANGED <<modal, created, opening, rp>>
  /\ UNCHANGED selVars
  /\ UNCHANGED imageVars
  /\ UNCHANGED <<bgVars, handlerVars>>

\* The 400 ms timer set after a successful save fires: modal.remove().
CloseTimerFires(c) ==
  /\ sv[c].closer = "armed"
  /\ sv' = [sv EXCEPT ![c].closer = "fired"]
  /\ inDoc' = inDoc \ {modal}
  /\ UNCHANGED <<modal, created, opening, btnDisabled, rp>>
  /\ UNCHANGED selVars
  /\ UNCHANGED imageVars
  /\ UNCHANGED <<bgVars, handlerVars>>

-----------------------------------------------------------------------------
(* Page context: the capture strategies (direct_page_capture.js) *)

\* a || b on strings.
OrElse(a, b) == IF a = "" THEN b ELSE a

\* Math.round(n / d) for n >= 0, d > 0.
Round(n, d) == (2 * n + d) \div (2 * d)

\* img.naturalWidth, img.naturalHeight of a snapshot taken at ratio half / 2.
NaturalSize(viewport, half) == (viewport * half) \div 2

\* sx, sy, sw, sh: rect scaled by scaleX = naturalWidth / innerWidth and
\* scaleY = naturalHeight / innerHeight, each rounded.
ScaledSource(rect, naturalWidth, naturalHeight) ==
  [sx |-> Round(rect.x * naturalWidth, SurfaceW),
   sy |-> Round(rect.y * naturalHeight, SurfaceH),
   sw |-> Round(rect.w * naturalWidth, SurfaceW),
   sh |-> Round(rect.h * naturalHeight, SurfaceH)]

\* Faulty variant: the canvas keeps the size of the region.
NativeCanvas_RectSize(rect, src) == [w |-> rect.w, h |-> rect.h]

\* canvas.width, canvas.height of the native strategy.
NativeCanvas(rect, src) == [w |-> src.sw, h |-> src.sh]

\* if (!resp || !resp.ok || !resp.dataUrl)
ResponseFails(resp) == ~resp.defined \/ ~resp.ok \/ ~resp.dataUrl

\* catch (e) { throw new Error(e.message || ...) } of captureWithNativeAPI.
NativeRethrow(o) ==
  IF o.kind = "thrown" THEN Thrown(OrElse(o.message, NativeUnavailable))
  ELSE o

\* captureWithNativeAPI once the answer is there and it fails the test.
NativeResponseThrows(resp) ==
  NativeRethrow(Thrown(OrElse(IF resp.defined THEN resp.error ELSE "",
                              TabCaptureFailed)))

\* captureWithNativeAPI from the load of the snapshot on.
NativeCrop(rect, loaded, canvasThrows, naturalWidth, naturalHeight) ==
  LET src == ScaledSource(rect, naturalWidth, naturalHeight)
      size == NativeCanvas(rect, src)
  IN NativeRethrow(IF ~loaded THEN Thrown(ImageLoadFailed)
                   ELSE IF canvasThrows THEN Thrown(CanvasError)
                   ELSE Image(size.w, size.h, src))

\* Names that truncateText can resolve: its parameters.  No script of the
\* extension declares a global ctx.
TruncateTextScope == {"text", "maxWidth"}
\* truncateText: its first statement reads ctx.
TruncateText ==
  IF "ctx" \in TruncateTextScope THEN Image(0, 0, NoSource)
  ELSE Thrown(CtxNotDefined)

\* drawPageInfo: two calls of truncateText.
DrawPageInfo == TruncateText

\* captureWithDOM: the executor's catch rejects with the error.
CaptureWithDOM(rect, canvasThrows) ==
  IF canvasThrows THEN Thrown(CanvasError)
  ELSE IF DrawPageInfo.kind = "thrown" THEN DrawPageInfo
  ELSE Image(rect.w, rect.h, NoSource)

\* The placeholder captureScreenshot draws itself when the module is absent.
InlineFallback(rect, canvasThrows) ==
  IF canvasThrows THEN Thrown(CanvasError)
  ELSE Image(rect.w, rect.h, NoSource)

\* Faulty variant: capture() lets the error of the strategy through.
CaptureCatch_Rethrows(o) ==
  IF o.kind = "thrown"
  THEN [NoResult EXCEPT !.settled = "rejected", !.error = o.message]
  ELSE [settled |-> "resolved", success |-> TRUE, error |-> "",
        w |-> o.w, h |-> o.h, src |-> o.src]

\* capture(): return of the strategy's result, or the catch's
\* {success: false, error: error.message || ...}.
CaptureCatch(o) ==
  IF o.kind = "thrown"
  THEN [NoResult EXCEPT !.settled = "resolved",
                        !.error = OrElse(o.message, CaptureFailed)]
  ELSE [settled |-> "resolved", success |-> TRUE, error |-> "",
        w |-> o.w, h |-> o.h, src |-> o.src]

\* captureScreenshot after the await: the tag modal on success, the error
\* tip otherwise (also when the awaited promise rejects).
FlowAfter(out) ==
  IF out.settled = "resolved" /\ out.success THEN "modal" ELSE "error"

\* capture(rect) settles after its strategy ended with o.
Finished(c, o, canvasThrows) ==
  LET out == CaptureCatch(o)
  IN [c EXCEPT !.pc = "done", !.last = o, !.out = out,
               !.flow = FlowAfter(out), !.canvasThrew = canvasThrows]

\* captureScreenshot(rect): capture(rect) of the module when it is loaded,
\* with the native strategy when isNativeCaptureSupported() and the DOM
\* strategy otherwise; the inline placeholder when the module is absent.
CaptureScreenshot(rect, loaded, supported, canvasThrows) ==
  /\ cap.pc \in {"idle", "done"}
  /\ LET c == [IdleCapture EXCEPT !.rect = rect, !.supported = supported]
     IN cap' =
          IF ~loaded
          THEN LET o == InlineFallback(rect, canvasThrows)
               IN [c EXCEPT !.pc = "done", !.tried = <<"inline">>,
                            !.canvasThrew = canvasThrows, !.last = o,
                            !.out = [NoResult EXCEPT
                                       !.settled = "resolved",
                                       !.success = (o.kind = "image"),
                                       !.error = o.message,
                                       !.w = o.w, !.h = o.h],
                            !.flow = IF o.kind = "image" THEN "modal"
                                     ELSE "error"]
          ELSE IF supported
          THEN [c EXCEPT !.pc = "sent", !.tried = <<"native">>]
          ELSE Finished([c EXCEPT !.tried = <<"dom">>],
                        CaptureWithDOM(rect, canvasThrows), canvasThrows)
  /\ UNCHANGED <<selVars, modalVars, cropVars>>
  /\ UNCHANGED <<bgVars, handlerVars>>

\* The callback of chrome.runtime.sendMessage({type: 'CAPTURE'}) runs.
CaptureResponse(resp) ==
  /\ cap.pc = "sent"
  /\ cap' = IF ResponseFails(resp)
            THEN Finished(cap, NativeResponseThrows(resp), FALSE)
            ELSE [cap EXCEPT !.pc = "loading"]
  /\ UNCHANGED <<selVars, modalVars, cropVars>>
  /\ UNCHANGED <<bgVars, handlerVars>>

\* img.onload or img.onerror of the snapshot fires.
SnapshotSettles(loaded, canvasThrows, halfX, halfY) ==
  /\ cap.pc = "loading"
  /\ LET natural == [w |-> NaturalSize(SurfaceW, halfX),
                     h |-> NaturalSize(SurfaceH, halfY)]
     IN cap' = Finished([cap EXCEPT !.natural = natural],
                        NativeCrop(cap.rect, loaded, canvasThrows,
                                   natural.w, natural.h),
                        loaded /\ canvasThrows)
  /\ UNCHANGED <<selVars, modalVars, cropVars>>
  /\ UNCHANGED <<bgVars, handlerVars>>

-----------------------------------------------------------------------------
(* Page context: the crop editor (content.js, openCropModal) *)

\* maxWidth = Math.min(800, window.innerWidth * 0.6)
MaxDisplayWidth(window) == Min2(800, (window.w * 6) \div 10)
\* maxHeight = Math.min(600, window.innerHeight * 0.6)
MaxDisplayHeight(window) == Min2(600, (window.h * 6) \div 10)

\* imageRatio > containerRatio
WiderThanDisplay(image, window) ==
  image.w * MaxDisplayHeight(window) > MaxDisplayWidth(window) * image.h

\* displayWidth, displayHeight: the image fitted into maxWidth x maxHeight
\* with its ratio kept.
DisplaySize(image, window) ==
  IF WiderThanDisplay(image, window)
  THEN [w |-> MaxDisplayWidth(window),
        h |-> (MaxDisplayWidth(window) * image.h) \div image.w]
  ELSE [w |-> (MaxDisplayHeight(window) * image.w) \div image.h,
        h |-> MaxDisplayHeight(window)]

\* The crop window of cropData, with the size of the browser window.
CropWindow(data, window) ==
  [x |-> data.cropX, y |-> data.cropY,
   width |-> data.cropWidth, height |-> data.cropHeight,
   w |-> window.w, h |-> window.h]

\* Faulty variant: no lower limit of 50.
InitialSize_NoMinimum(display) == Min2((display * 6) \div 10, 300)

\* Math.max(50, Math.min(display * 0.6, 300))
InitialSize(display) == Max2(50, Min2((display * 6) \div 10, 300))

\* The sizes for which every product and quotient of initializeCrop is a
\* whole number of pixels, so that \div above is exact.
Exact(image, window) ==
  LET d == DisplaySize(image, window)
  IN /\ (window.w * 6) % 10 = 0
     /\ (window.h * 6) % 10 = 0
     /\ (MaxDisplayWidth(window) * image.h) % image.w = 0
     /\ (MaxDisplayHeight(window) * image.w) % image.h = 0
     /\ (d.w * 6) % 10 = 0
     /\ (d.h * 6) % 10 = 0
     /\ (d.w - InitialSize(d.w)) % 2 = 0
     /\ (d.h - InitialSize(d.h)) % 2 = 0

SessionInputs ==
  {pair \in SessionImages \X SessionWindows : Exact(pair[1], pair[2])}
AllInputs ==
  {pair \in AllImages \X AllWindows : Exact(pair[1], pair[2])}

\* Faulty variant: a crop window that is already narrower than the initial
\* one keeps its width.
InitializeCrop_KeepsWidth(data, image, window) ==
  LET d == DisplaySize(image, window)
      initialWidth == IF data.containerWidth = d.w
                      THEN Min2(data.cropWidth, InitialSize(d.w))
                      ELSE InitialSize(d.w)
      initialHeight == InitialSize(d.h)
  IN [data EXCEPT !.imageWidth = image.w, !.imageHeight = image.h,
                  !.containerWidth = d.w, !.containerHeight = d.h,
                  !.cropX = (d.w - initialWidth) \div 2,
                  !.cropY = (d.h - initialHeight) \div 2,
                  !.cropWidth = initialWidth,
                  !.cropHeight = initialHeight]

\* initializeCrop(img, container): image size, container size and the
\* initial crop window; the interaction flags stay as they are.
InitializeCrop(data, image, window) ==
  LET d == DisplaySize(image, window)
      initialWidth == InitialSize(d.w)
      initialHeight == InitialSize(d.h)
  IN [data EXCEPT !.imageWidth = image.w, !.imageHeight = image.h,
                  !.containerWidth = d.w, !.containerHeight = d.h,
                  !.cropX = (d.w - initialWidth) \div 2,
                  !.cropY = (d.h - initialHeight) \div 2,
                  !.cropWidth = initialWidth,
                  !.cropHeight = initialHeight]

\* Math.max(0, Math.min(v, limit))
Clamp0(v, limit) == Max2(0, Min2(v, limit))

\* handle.includes(letter)
Includes(handle, letter) ==
  CASE letter = "n" -> handle \in {"nw", "n", "ne"}
    [] letter = "s" -> handle \in {"sw", "s", "se"}
    [] letter = "w" -> handle \in {"nw", "w", "sw"}
    [] letter = "e" -> handle \in {"ne", "e", "se"}

\* The pointer at p is over the crop box, which lies inside the border of
\* the area.
OverBox(data, p) ==
  /\ data.cropX <= p[1] - AreaLeft - AreaBorder
  /\ p[1] - AreaLeft - AreaBorder < data.cropX + data.cropWidth
  /\ data.cropY <= p[2] - AreaTop - AreaBorder
  /\ p[2] - AreaTop - AreaBorder < data.cropY + data.cropHeight

\* The pointer at p is over the area: its container-sized content or its
\* border.
OverArea(data, p) ==
  /\ 0 <= p[1] - AreaLeft
  /\ p[1] - AreaLeft < data.containerWidth + 2 * AreaBorder
  /\ 0 <= p[2] - AreaTop
  /\ p[2] - AreaTop < data.containerHeight + 2 * AreaBorder

\* startNewSelection(e)
StartNewSelection(data, p) ==
  LET startX == Clamp0(p[1] - AreaLeft, data.containerWidth)
      startY == Clamp0(p[2] - AreaTop, data.containerHeight)
  IN [data EXCEPT !.isDrawing = TRUE, !.startX = startX, !.startY = startY,
                  !.cropX = startX, !.cropY = startY,
                  !.cropWidth = 0, !.cropHeight = 0]

\* startDrag(e)
StartDrag(data, p) ==
  [data EXCEPT !.isDragging = TRUE, !.startX = p[1] - data.cropX,
               !.startY = p[2] - data.cropY]

\* startResize(e, handle)
StartResize(data, p, handle) ==
  [data EXCEPT !.isResizing = TRUE, !.resizeHandle = handle,
               !.startX = p[1], !.startY = p[2]]

\* The isDrawing branch of handleMouseMove.
DrawTo(data, p) ==
  LET x == Clamp0(p[1] - AreaLeft, data.containerWidth)
      y == Clamp0(p[2] - AreaTop, data.containerHeight)
  IN [data EXCEPT !.cropX = Min2(data.startX, x),
                  !.cropY = Min2(data.startY, y),
                  !.cropWidth = Max2(1, Abs(x - data.startX)),
                  !.cropHeight = Max2(1, Abs(y - data.startY))]

\* The isDragging branch of handleMouseMove.
DragTo(data, p) ==
  [data EXCEPT
     !.cropX = Clamp0(p[1] - data.startX,
                      data.containerWidth - data.cropWidth),
     !.cropY = Clamp0(p[2] - data.startY,
                      data.containerHeight - data.cropHeight)]

\* handleResize(e)
HandleResize(data, p) ==
  LET deltaX == p[1] - data.startX
      deltaY == p[2] - data.startY
      handle == data.resizeHandle
      newX == IF Includes(handle, "w") THEN Max2(0, data.cropX + deltaX)
              ELSE data.cropX
      westWidth == IF Includes(handle, "w")
                   THEN data.cropWidth - (newX - data.cropX)
                   ELSE data.cropWidth
      newWidth == IF Includes(handle, "e")
                  THEN Min2(data.containerWidth - data.cropX,
                            data.cropWidth + deltaX)
                  ELSE westWidth
      newY == IF Includes(handle, "n") THEN Max2(0, data.cropY + deltaY)
              ELSE data.cropY
      northHeight == IF Includes(handle, "n")
                     THEN data.cropHeight - (newY - data.cropY)
                     ELSE data.cropHeight
      newHeight == IF Includes(handle, "s")
                   THEN Min2(data.containerHeight - data.cropY,
                             data.cropHeight + deltaY)
                   ELSE northHeight
  IN IF newWidth >= 20 /\ newHeight >= 20
     THEN [data EXCEPT !.cropX = newX, !.cropY = newY,
                       !.cropWidth = newWidth, !.cropHeight = newHeight]
     ELSE data

\* handleMouseUp()
Released(data) ==
  [data EXCEPT !.isDragging = FALSE, !.isResizing = FALSE,
               !.isDrawing = FALSE, !.resizeHandle = NoHandle]

\* handleMouseMove(e): the first of draw, drag and resize whose flag is set.
MovedTo(data, p) ==
  IF data.isDrawing THEN DrawTo(data, p)
  ELSE IF data.isDragging THEN DragTo(data, p)
  ELSE IF data.isResizing THEN HandleResize(data, p)
  ELSE data

\* document.getElementById('tagball-preview'): the first such element in
\* the document; elements are appended in the order of their creation.
FirstPreview == CHOOSE m \in inDoc : \A n \in inDoc : m <= n

\* The crop button of tag modal m is clicked: the mouseup of the click
\* reaches handleMouseUp where an earlier editor registered it (the flags
\* are unset before that), then openCropModal(prefill.imageDataUrl) replaces
\* the crop modal and hides the element in `modal`.
OpenCropModal(m) ==
  /\ m \in inDoc
  /\ m \notin hidden
  /\ cropModal' = "loading"
  /\ cropData' = Released(cropData)
  /\ hidden' = IF modal # 0 THEN hidden \cup {modal} ELSE hidden
  /\ cropHist' = NoHistory
  /\ cropCanvas' = NoCanvas
  /\ UNCHANGED <<previewSrc, payload>>
  /\ UNCHANGED <<selVars, modalVars, capVars>>
  /\ UNCHANGED <<bgVars, handlerVars>>

\* onload of #crop-image: initializeCrop(this, cropArea).
CropImageLoads(image, window) ==
  /\ cropModal = "loading"
  /\ cropModal' = "ready"
  /\ cropData' = InitializeCrop(cropData, image, window)
  /\ cropHist' = [NoHistory EXCEPT
                    !.fresh = TRUE, !.resizeOnly = TRUE,
                    !.initial = CropWindow(InitializeCrop(cropData, image,
                                                          window), window)]
  /\ UNCHANGED <<hidden, previewSrc, payload, cropCanvas>>
  /\ UNCHANGED <<selVars, modalVars, capVars>>
  /\ UNCHANGED <<bgVars, handlerVars>>

\* mousedown on the area outside the crop box: startNewSelection.
AreaMouseDown(p) ==
  /\ cropModal = "ready"
  /\ cropHist.downs < MaxPointerDown
  /\ OverArea(cropData, p)
  /\ ~OverBox(cropData, p)
  /\ cropData' = StartNewSelection(cropData, p)
  /\ cropHist' = [cropHist EXCEPT !.downs = @ + 1, !.fresh = FALSE,
                                  !.resizeOnly = FALSE, !.reset = "none",
                                  !.draw = "drawing",
                                  !.downX = p[1] - AreaLeft,
                                  !.downY = p[2] - AreaTop]
  /\ UNCHANGED <<cropModal, hidden, previewSrc, payload, cropCanvas>>
  /\ UNCHANGED <<selVars, modalVars, capVars>>
  /\ UNCHANGED <<bgVars, handlerVars>>

\* mousedown on the crop box, not on a handle: startDrag.
BoxMouseDown(p) ==
  /\ cropModal = "ready"
  /\ cropHist.downs < MaxPointerDown
  /\ OverArea(cropData, p)
  /\ OverBox(cropData, p)
  /\ cropData' = StartDrag(cropData, p)
  /\ cropHist' = [cropHist EXCEPT !.downs = @ + 1, !.fresh = FALSE,
                                  !.resizeOnly = FALSE, !.reset = "none",
                                  !.draw = IF @ = "drawing" THEN "mixed"
                                           ELSE "none"]
  /\ UNCHANGED <<cropModal, hidden, previewSrc, payload, cropCanvas>>
  /\ UNCHANGED <<selVars, modalVars, capVars>>
  /\ UNCHANGED <<bgVars, handlerVars>>

\* mousedown on a handle of the crop box: startResize.  The handles move
\* with the box, and handleResize uses the displacement from p only.
HandleMouseDown(p, handle) ==
  /\ cropModal = "ready"
  /\ cropHist.downs < MaxPointerDown
  /\ cropData' = StartResize(cropData, p, handle)
  /\ cropHist' = [cropHist EXCEPT !.downs = @ + 1, !.fresh = FALSE,
                                  !.reset = "none",
                                  !.draw = IF @ = "drawing" THEN "mixed"
                                           ELSE "none"]
  /\ UNCHANGED <<cropModal, hidden, previewSrc, payload, cropCanvas>>
  /\ UNCHANGED <<selVars, modalVars, capVars>>
  /\ UNCHANGED <<bgVars, handlerVars>>

\* mousemove on the document: handleMouseMove.
HandleMouseMove(p) ==
  /\ cropModal = "ready"
  /\ cropData' = MovedTo(cropData, p)
  /\ cropHist' = [cropHist EXCEPT
                    !.fresh = @ /\ MovedTo(cropData, p) = cropData]
  /\ UNCHANGED <<cropModal, hidden, previewSrc, payload, cropCanvas>>
  /\ UNCHANGED <<selVars, modalVars, capVars>>
  /\ UNCHANGED <<bgVars, handlerVars>>

\* mouseup on the document: handleMouseUp.
HandleMouseUp ==
  /\ cropModal = "ready"
  /\ cropData' = Released(cropData)
  /\ cropHist' = [cropHist EXCEPT !.draw = IF @ = "drawing" THEN "completed"
                                           ELSE "none"]
  /\ UNCHANGED <<cropModal, hidden, previewSrc, payload, cropCanvas>>
  /\ UNCHANGED <<selVars, modalVars, capVars>>
  /\ UNCHANGED <<bgVars, handlerVars>>

\* The reset button is clicked: the mouseup of the click reaches
\* handleMouseUp, then resetCrop() runs initializeCrop with the same image.
ResetCrop(window) ==
  /\ cropModal = "ready"
  /\ cropData' = InitializeCrop(Released(cropData),
                                [w |-> cropData.imageWidth,
                                 h |-> cropData.imageHeight], window)
  /\ cropHist' = [NoHistory EXCEPT
                    !.fresh = TRUE, !.resizeOnly = TRUE,
                    !.initial = cropHist.initial,
                    !.reset = IF ~cropHist.fresh THEN "first"
                              ELSE IF cropHist.reset # "none" THEN "again"
                              ELSE "none"]
  /\ UNCHANGED <<cropModal, hidden, previewSrc, payload, cropCanvas>>
  /\ UNCHANGED <<selVars, modalVars, capVars>>
  /\ UNCHANGED <<bgVars, handlerVars>>

\* closeCropModal(): the element in `modal` is shown again.
ShownAgain == hidden \ {modal}

\* The cancel or the close button of the crop modal is clicked: the mouseup
\* of the click reaches handleMouseUp, then closeCropModal() removes the
\* crop modal.
CloseCropModal ==
  /\ cropModal # "none"
  /\ cropModal' = "none"
  /\ cropData' = Released(cropData)
  /\ hidden' = ShownAgain
  /\ cropHist' = NoHistory
  /\ UNCHANGED <<previewSrc, payload, cropCanvas>>
  /\ UNCHANGED <<selVars, modalVars, capVars>>
  /\ UNCHANGED <<bgVars, handlerVars>>

\* Faulty variant: the crop box taken as it is displayed, without the scales.
SourceCanvas_Unscaled(data) ==
  [drawn |-> TRUE, from |-> data, xNum |-> data.cropX, yNum |-> data.cropY,
   xDen |-> 1, yDen |-> 1,
   width |-> data.cropWidth, height |-> data.cropHeight]

\* applyCrop(): sourceX = cropX * scaleX and sourceY = cropY * scaleY, as
\* fractions xNum / xDen and yNum / yDen with scaleX = imageWidth /
\* containerWidth and scaleY = imageHeight / containerHeight; canvas.width
\* and canvas.height are sourceWidth and sourceHeight converted to the
\* unsigned long of the attributes, their fractions cut off.  drawImage
\* copies the source from (sourceX, sourceY) at its own scale, so the canvas
\* holds the source rectangle of that corner and the size of the canvas.
\* Before the first initializeCrop the container sizes are 0, both scales
\* are NaN and the canvas is empty.  `from` is the cropData it was cut from.
SourceCanvas(data) ==
  IF data.containerWidth = 0 \/ data.containerHeight = 0
  THEN [drawn |-> TRUE, from |-> data,
        xNum |-> 0, yNum |-> 0, xDen |-> 1, yDen |-> 1,
        width |-> 0, height |-> 0]
  ELSE [drawn |-> TRUE, from |-> data,
        xNum |-> data.cropX * data.imageWidth,
        yNum |-> data.cropY * data.imageHeight,
        xDen |-> data.containerWidth,
        yDen |-> data.containerHeight,
        width |-> (data.cropWidth * data.imageWidth)
                    \div data.containerWidth,
        height |-> (data.cropHeight * data.imageHeight)
                     \div data.containerHeight]

\* The apply button is clicked: after the mouseup of the click, applyCrop()
\* draws the canvas, puts its image into the first #tagball-preview of the
\* document and closes the crop modal.
ApplyCrop ==
  /\ cropModal # "none"
  /\ cropCanvas' = SourceCanvas(cropData)
  /\ previewSrc' = IF inDoc # {}
                   THEN [previewSrc EXCEPT ![FirstPreview] = CroppedImage]
                   ELSE previewSrc
  /\ cropModal' = "none"
  /\ cropData' = Released(cropData)
  /\ hidden' = ShownAgain
  /\ cropHist' = NoHistory
  /\ UNCHANGED payload
  /\ UNCHANGED <<selVars, modalVars, capVars>>
  /\ UNCHANGED <<bgVars, handlerVars>>

-----------------------------------------------------------------------------
(* Privileged context: the FETCH_SCHEMA and CLEAR_SCHEMA_CACHE branches of
   chrome.runtime.onMessage (background.js, tryFetchSchema) *)

\* Faulty variant: the fixed defaults come before the configured endpoint.
EndpointsFor_DefaultsFirst(setting) ==
  IF Trim(setting) # ""
  THEN DefaultEndpoints \o <<Trim(setting)>>
  ELSE DefaultEndpoints

\* const endpoints = []; the configured endpoint when it is not blank, then
\* the four defaults.
EndpointsFor(setting) ==
  IF Trim(setting) # ""
  THEN <<Trim(setting)>> \o DefaultEndpoints
  ELSE DefaultEndpoints

\* data.head || data.tail || data.headTabs || data.tailTabs: an array is
\* truthy, also an empty one.
HasCollection(body) ==
  \/ body.head.defined
  \/ body.tail.defined
  \/ body.headTabs.defined
  \/ body.tailTabs.defined

\* a || b || []
FirstDefined(a, b) ==
  IF a.defined THEN a.items ELSE IF b.defined THEN b.items ELSE <<>>

\* { head: data.head || data.headTabs || [], tail: data.tail || data.tailTabs || [] }
SchemaOf(body) ==
  Schema(FirstDefined(body.head, body.headTabs),
         FirstDefined(body.tail, body.tailTabs))

\* The response is HTTP-successful, is JSON and has a category collection.
ValidResponse(resp) ==
  /\ ~resp.thrown
  /\ resp.ok
  /\ resp.body.json
  /\ HasCollection(resp.body)

\* lastErr after the iteration that got resp.
LastErrAfter(lastErr, resp) ==
  IF resp.thrown THEN FetchThrew
  ELSE IF ~resp.ok THEN HttpError(resp.status)
  ELSE IF ~resp.body.json THEN JsonThrew
  ELSE lastErr

\* The next iteration of for (const ep of endpoints), or the code after it.
NextEndpoint(t) ==
  IF t.idx < Len(t.endpoints)
  THEN [t EXCEPT !.pc = "fetch", !.idx = @ + 1]
  ELSE [t EXCEPT !.pc = "fallback"]

\* Faulty variant: without a cache the answer is an empty schema.
FallbackResponse_EmptySchema(cached, lastErr) ==
  IF ~cached.null
  THEN [sent |-> 1, ok |-> TRUE, schema |-> cached, endpoint |-> "(cached)",
        error |-> NoError]
  ELSE [sent |-> 1, ok |-> TRUE, schema |-> Schema(<<>>, <<>>),
        endpoint |-> "(cached)", error |-> NoError]

\* if (cachedSchema) return { ok: true, schema: cachedSchema, endpoint:
\* "(cached)" }; return { ok: false, error: lastErr || "..." }
FallbackResponse(cached, lastErr) ==
  IF ~cached.null
  THEN [sent |-> 1, ok |-> TRUE, schema |-> cached, endpoint |-> "(cached)",
        error |-> NoError]
  ELSE [sent |-> 1, ok |-> FALSE, schema |-> NoSchema, endpoint |-> "",
        error |-> IF lastErr # NoError THEN lastErr ELSE NoEndpointFound]

\* The message arrives; the handler awaits getSettings().
FetchSchemaStart(f) ==
  /\ fs[f].pc = "idle"
  /\ fs' = [fs EXCEPT ![f].pc = "settings"]
  /\ UNCHANGED <<cachedSchema, hs>>
  /\ UNCHANGED <<bgVars, pageVars>>

\* getSettings() has settled with settings.schemaEndpoint = setting:
\* tryFetchSchema(settings) builds endpoints and fetches the first.
FetchSchemaSettings(f, setting) ==
  /\ fs[f].pc = "settings"
  /\ fs' = [fs EXCEPT ![f].pc = "fetch",
                      ![f].endpoints = EndpointsFor(setting),
                      ![f].idx = 1]
  /\ UNCHANGED <<cachedSchema, hs>>
  /\ UNCHANGED <<bgVars, pageVars>>

\* fetch(url) of the current endpoint has settled with resp, and resp.json()
\* after it: a valid schema goes to setCachedSchema, anything else to the
\* next endpoint.
FetchSchemaResponse(f, resp) ==
  /\ fs[f].pc = "fetch"
  /\ LET t == [fs[f] EXCEPT
                 !.contacted = Append(@, fs[f].endpoints[fs[f].idx]),
                 !.firstValid = IF @ = 0 /\ ValidResponse(resp)
                                THEN fs[f].idx ELSE @,
                 !.lastErr = LastErrAfter(@, resp)]
     IN fs' = [fs EXCEPT ![f] =
                 IF ValidResponse(resp)
                 THEN [t EXCEPT !.pc = "cache", !.schema = SchemaOf(resp.body)]
                 ELSE NextEndpoint(t)]
  /\ UNCHANGED <<cachedSchema, hs>>
  /\ UNCHANGED <<bgVars, pageVars>>

\* await setCachedSchema(schema) has settled: the schema is stored and
\* returned, sendResponse(r); or chrome.storage.local.set has thrown inside
\* the try of the iteration, whose catch goes to the next endpoint.
SetCachedSchemaSettles(f, thrown) ==
  /\ fs[f].pc = "cache"
  /\ IF thrown
     THEN /\ fs' = [fs EXCEPT ![f] =
                      NextEndpoint([fs[f] EXCEPT !.lastErr = StorageThrew,
                                                 !.schema = NoSchema])]
          /\ UNCHANGED cachedSchema
     ELSE /\ cachedSchema' = fs[f].schema
          /\ fs' = [fs EXCEPT
                      ![f].pc = "done",
                      ![f].r = [sent |-> 1, ok |-> TRUE,
                                schema |-> fs[f].schema,
                                endpoint |-> fs[f].endpoints[fs[f].idx],
                                error |-> NoError]]
  /\ UNCHANGED hs
  /\ UNCHANGED <<bgVars, pageVars>>

\* No endpoint was accepted: getSettings() has settled, the cached schema or
\* the error is returned, sendResponse(r).
FetchSchemaFallback(f) ==
  /\ fs[f].pc = "fallback"
  /\ fs' = [fs EXCEPT ![f].pc = "done",
                      ![f].read = cachedSchema,
                      ![f].r = FallbackResponse(cachedSchema, fs[f].lastErr)]
  /\ UNCHANGED <<cachedSchema, hs>>
  /\ UNCHANGED <<bgVars, pageVars>>

\* CLEAR_SCHEMA_CACHE: clearCachedSchema() has removed the stored schema.
ClearSchemaCache ==
  /\ cachedSchema' = NoSchema
  /\ UNCHANGED <<fs, hs>>
  /\ UNCHANGED <<bgVars, pageVars>>

-----------------------------------------------------------------------------
(* Privileged context: the responses of chrome.runtime.onMessage
   (background.js), with storage and network steps that throw *)

\* sendResponse({ ok: true, ... })
Responded(t) ==
  [t EXCEPT !.pc = "done", !.sent = @ + 1, !.ok = TRUE, !.error = NoError]

\* sendResponse({ ok: false, error })
RespondedError(t, error) ==
  [t EXCEPT !.pc = "done", !.sent = @ + 1, !.ok = FALSE, !.error = error]

\* Faulty variant: the catch swallows the exception.
Caught_NoResponse(t, error) == [t EXCEPT !.pc = "done", !.caught = TRUE]

\* catch (e) { sendResponse({ ok: false, error: String(e) }) } of the
\* listener, its outer one and the ones of CAPTURE and TRANSLATE.
Caught(t, error) == RespondedError([t EXCEPT !.caught = TRUE], error)

\* A storage or network step of the request has thrown.
Threw(t) == [t EXCEPT !.threw = TRUE]

\* The message arrives: REQUEST_DESKTOP_CAPTURE is answered at once, every
\* other type awaits its first storage step (getSettings, saveSettings or
\* clearCachedSchema).
HandlerStart(h, type) ==
  /\ hs[h].pc = "idle"
  /\ hs' = [hs EXCEPT ![h] =
              IF type = "REQUEST_DESKTOP_CAPTURE"
              THEN Responded([hs[h] EXCEPT !.type = type])
              ELSE [hs[h] EXCEPT !.type = type, !.pc = "storage"]]
  /\ UNCHANGED <<cachedSchema, fs>>
  /\ UNCHANGED <<bgVars, pageVars>>

\* The storage step has settled: thrown, the outer catch answers; else
\* GET_SETTINGS, SET_SETTINGS and CLEAR_SCHEMA_CACHE answer, CAPTURE calls
\* captureVisibleTab, TRANSLATE and PING_SERVER fetch.
HandlerStorageSettles(h, thrown) ==
  /\ hs[h].pc = "storage"
  /\ hs' = [hs EXCEPT ![h] =
              IF thrown THEN Caught(Threw(hs[h]), StorageThrew)
              ELSE CASE hs[h].type = "CAPTURE" -> [hs[h] EXCEPT !.pc = "capture"]
                     [] hs[h].type = "TRANSLATE" -> [hs[h] EXCEPT !.pc = "translate"]
                     [] hs[h].type = "PING_SERVER" ->
                          [hs[h] EXCEPT !.pc = "ping", !.idx = 1]
                     [] OTHER -> Responded(hs[h])]
  /\ cachedSchema' = IF ~thrown /\ hs[h].type = "CLEAR_SCHEMA_CACHE"
                     THEN NoSchema ELSE cachedSchema
  /\ UNCHANGED fs
  /\ UNCHANGED <<bgVars, pageVars>>

\* CAPTURE: captureVisibleTab has thrown at the call (catch of the branch),
\* or its callback runs and answers.
HandlerCaptureSettles(h, outcome) ==
  /\ hs[h].pc = "capture"
  /\ hs' = [hs EXCEPT ![h] =
              CASE outcome = "throws" -> Caught(hs[h], TabCaptureFailed)
                [] outcome = "dataUrl" -> Responded(hs[h])
                [] OTHER -> RespondedError(hs[h], TabCaptureFailed)]
  /\ UNCHANGED <<cachedSchema, fs>>
  /\ UNCHANGED <<bgVars, pageVars>>

\* TRANSLATE: the POST to /translate has settled, and resp.json() after it:
\* a thrown fetch, a status that is not ok and a body that is not JSON reach
\* the catch of the branch.
HandlerTranslateSettles(h, r) ==
  /\ hs[h].pc = "translate"
  /\ hs' = [hs EXCEPT ![h] =
              CASE r = "ok" -> Responded(hs[h])
                [] r = "fail" -> Caught(hs[h], HttpError(404))
                [] r = "notJson" -> Caught(Threw(hs[h]), JsonThrew)
                [] OTHER -> Caught(Threw(hs[h]), FetchThrew)]
  /\ UNCHANGED <<cachedSchema, fs>>
  /\ UNCHANGED <<bgVars, pageVars>>

\* PING_SERVER: the fetch of the current candidate of pingServer has
\* settled; a failure goes to the next candidate inside pingServer, and
\* after the last one the handler answers { ok: false, error: last }.
HandlerPingSettles(h, r) ==
  /\ hs[h].pc = "ping"
  /\ LET t == IF r = "throw" THEN Threw(hs[h]) ELSE hs[h] IN
     hs' = [hs EXCEPT ![h] =
              IF r = "ok" THEN Responded(t)
              ELSE IF t.idx < Len(PingCandidates)
              THEN [t EXCEPT !.idx = @ + 1]
              ELSE RespondedError(t, IF r = "fail" THEN HttpError(404)
                                     ELSE FetchThrew)]
  /\ UNCHANGED <<cachedSchema, fs>>
  /\ UNCHANGED <<bgVars, pageVars>>

\* FETCH_SCHEMA: getSettings() of the handler or of the fallback has thrown;
\* the outer catch answers.
FetchSchemaStorageThrows(f) ==
  /\ fs[f].pc \in {"settings", "fallback"}
  /\ fs' = [fs EXCEPT ![f].pc = "done",
                      ![f].r = [fs[f].r EXCEPT !.sent = @ + 1, !.ok = FALSE,
                                               !.error = StorageThrew]]
  /\ UNCHANGED <<cachedSchema, hs>>
  /\ UNCHANGED <<bgVars, pageVars>>

\* SAVE_TAG: getSettings() of the handler has thrown, or pushOutbox has (its
\* getSettings() or its storage.set): the outer catch answers { ok: false,
\* error } without queued.
DeliverStorageThrows(d) ==
  /\ dl[d].pc \in {"settings", "pushRead", "pushWrite"}
  /\ dl' = [dl EXCEPT ![d].pc = "done", ![d].outcome = "failed",
                      ![d].err = "storage_exception", ![d].local = <<>>,
                      ![d].sent = @ + 1]
  /\ UNCHANGED <<outbox, alarm, retryPending, up, accepted, fl>>
  /\ UNCHANGED <<alarmPeriod, storedMinutes>>
  /\ UNCHANGED <<handlerVars, pageVars>>

Init == BgInit /\ HandlerInit /\ PageInit

-----------------------------------------------------------------------------
DeliverStep(d) ==
  \/ DeliverSettings(d)
  \/ \E r \in FetchResults : DeliverPrimary(d, r)
  \/ \E r \in FetchResults : DeliverSecondary(d, r)
  \/ DeliverJson(d)
  \/ DeliverPushRead(d)
  \/ DeliverPushWrite(d)

FlushStep(f) ==
  \/ FlushRead(f)
  \/ \E r \in FetchResults : FlushPrimary(f, r)
  \/ \E r \in FetchResults : FlushSecondary(f, r)
  \/ FlushWrite(f)

Next ==
  \/ \E d \in Delivers : DeliverStart(d)
  \/ \E d \in Delivers : DeliverStep(d)
  \/ ScheduleRetryCallback
  \/ \E f \in Flushes : AlarmFires(f)
  \/ \E f \in Flushes : FlushStep(f)

Spec == Init /\ [][Next]_vars

\* The same program with a collector that at some point starts to accept
\* every POST.
NextRecovering ==
  \/ Next
  \/ CollectorRecovers

\* Every started handler step, every issued callback and every alarm firing
\* eventually runs; new requests and the collector's recovery are up to the
\* environment.
Fairness ==
  /\ \A d \in Delivers : WF_vars(DeliverStep(d))
  /\ \A f \in Flushes : WF_vars(FlushStep(f)) /\ WF_vars(AlarmFires(f))
  /\ WF_vars(ScheduleRetryCallback)

FairSpec == Init /\ [][NextRecovering]_vars /\ Fairness

\* The region selector alone: the user's mouse and keyboard events and the
\* capture a selection starts.
SelectNext ==
  \/ StartSelection
  \/ \E p \in Points : OnMouseDown(p)
  \/ \E p \in Points : OnMouseMove(p)
  \/ OnMouseUp
  \/ OnEscape
  \/ \E ok \in BOOLEAN : CaptureSettles(ok)

SelectSpec == Init /\ [][SelectNext]_vars

\* Retry scheduling under changing settings: SAVE_TAG requests, the
\* scheduleRetry callbacks they cause, settings stored by SET_SETTINGS and
\* settings saved from the options page.
RetryNext ==
  \/ \E d \in Delivers : DeliverStart(d)
  \/ \E d \in Delivers : DeliverStep(d)
  \/ ScheduleRetryCallback
  \/ \E stored \in StoredValues : SetSettings(stored)
  \/ \E input \in StoredValues : SetSettings(OptionsMinutes(input))

RetrySpec == Init /\ [][RetryNext]_vars

\* Saving from the tag modal: the modal, its rpc("SAVE_TAG") calls and the
\* SAVE_TAG handlers that answer them.
SaveNext ==
  \/ OpenTagModalStart
  \/ OpenTagModalFinish
  \/ \E m \in Modals : CloseClick(m)
  \/ \E m \in Modals, c \in Calls : SaveClick(m, c)
  \/ \E c \in Calls : MessageArrives(c)
  \/ \E d \in Calls : DeliverStep(d)
  \/ \E c \in Calls : RpcTimeout(c)
  \/ \E c \in Calls : RpcResponse(c)
  \/ \E c \in Calls : RpcLastError(c)
  \/ \E c \in Calls : SaveContinues(c)
  \/ \E c \in Calls : CloseTimerFires(c)

SaveSpec == Init /\ [][SaveNext]_vars

\* The rpc("SAVE_TAG") calls alone, without what the save handler does once
\* a call has settled.
RpcNext ==
  \/ OpenTagModalStart
  \/ OpenTagModalFinish
  \/ \E m \in Modals, c \in Calls : SaveClick(m, c)
  \/ \E c \in Calls : MessageArrives(c)
  \/ \E d \in Calls : DeliverStep(d)
  \/ \E c \in Calls : RpcTimeout(c)
  \/ \E c \in Calls : RpcResponse(c)
  \/ \E c \in Calls : RpcLastError(c)

\* A timer that is armed fires unless it is cleared.  Nothing is assumed
\* about the privileged context: a fetch() of its handler may never settle.
RpcFairness == \A c \in Calls : WF_vars(RpcTimeout(c))

RpcFairSpec == Init /\ [][RpcNext]_vars /\ RpcFairness

\* The capture of a selected region: calls of captureScreenshot with every
\* sampled region, answer of the privileged context, snapshot size and
\* failure of a canvas primitive.
CaptureNext ==
  \/ \E rect \in CaptureRects, loaded, supported, canvasThrows \in BOOLEAN :
       CaptureScreenshot(rect, loaded, supported, canvasThrows)
  \/ \E resp \in CaptureResponses : CaptureResponse(resp)
  \/ \E loaded, canvasThrows \in BOOLEAN, halfX, halfY \in HalfRatios :
       SnapshotSettles(loaded, canvasThrows, halfX, halfY)

CaptureSpec == Init /\ [][CaptureNext]_vars

\* FETCH_SCHEMA requests against servers that answer anything, and
\* CLEAR_SCHEMA_CACHE requests; chrome.storage.local stores what it is given,
\* as for the outbox.
SchemaNext ==
  \/ \E f \in SchemaFetches : FetchSchemaStart(f)
  \/ \E f \in SchemaFetches, setting \in SchemaEndpointSettings :
       FetchSchemaSettings(f, setting)
  \/ \E f \in SchemaFetches, resp \in SchemaResponses :
       FetchSchemaResponse(f, resp)
  \/ \E f \in SchemaFetches : SetCachedSchemaSettles(f, FALSE)
  \/ \E f \in SchemaFetches : FetchSchemaFallback(f)
  \/ ClearSchemaCache

SchemaSpec == Init /\ [][SchemaNext]_vars

\* Requests in progress, of every type.
InProgress ==
  Cardinality({d \in Delivers : dl[d].pc \notin {"idle", "done"}})
  + Cardinality({f \in SchemaFetches : fs[f].pc \notin {"idle", "done"}})
  + Cardinality({h \in Handlers : hs[h].pc \notin {"idle", "done"}})

\* Requests received, of every type.
Received ==
  Cardinality({d \in Delivers : dl[d].pc # "idle"})
  + Cardinality({f \in SchemaFetches : fs[f].pc # "idle"})
  + Cardinality({h \in Handlers : hs[h].pc # "idle"})

\* Requests that overlap in HandlerSpec, and requests it follows in all.
MaxInProgress == 2
MaxReceived == 2

\* Requests of every recognised type, up to MaxInProgress of them at a
\* time, against a server that answers anything and a storage whose every
\* step can throw.
HandlerNext ==
  \/ /\ InProgress < MaxInProgress
     /\ Received < MaxReceived
     /\ \/ \E d \in Delivers : DeliverStart(d)
        \/ \E f \in SchemaFetches : FetchSchemaStart(f)
        \/ \E h \in Handlers, type \in HandlerTypes : HandlerStart(h, type)
  \/ \E d \in Delivers : DeliverStep(d)
  \/ \E d \in Delivers : DeliverStorageThrows(d)
  \/ ScheduleRetryCallback
  \/ \E f \in SchemaFetches, setting \in SchemaEndpointSettings :
       FetchSchemaSettings(f, setting)
  \/ \E f \in SchemaFetches, resp \in SchemaResponses :
       FetchSchemaResponse(f, resp)
  \/ \E f \in SchemaFetches, thrown \in BOOLEAN :
       SetCachedSchemaSettles(f, thrown)
  \/ \E f \in SchemaFetches : FetchSchemaFallback(f)
  \/ \E f \in SchemaFetches : FetchSchemaStorageThrows(f)
  \/ \E h \in Handlers, thrown \in BOOLEAN : HandlerStorageSettles(h, thrown)
  \/ \E h \in Handlers, outcome \in TabCaptures :
       HandlerCaptureSettles(h, outcome)
  \/ \E h \in Handlers, r \in TranslateResults : HandlerTranslateSettles(h, r)
  \/ \E h \in Handlers, r \in FetchResults : HandlerPingSettles(h, r)

HandlerSpec == Init /\ [][HandlerNext]_vars

\* The image and the window of the open crop editor.
CropImage == [w |-> cropData.imageWidth, h |-> cropData.imageHeight]

\* Interactive sessions of the crop editor: pointer-down on the area, the
\* box and the handles, moves, pointer-up and reset at every sampled point.
\* Closing and applying are followed in CropModalSpec.
CropNext ==
  \/ OpenTagModalStart
  \/ OpenTagModalFinish
  \/ \E m \in Modals : OpenCropModal(m)
  \/ \E pair \in SessionInputs : CropImageLoads(pair[1], pair[2])
  \/ \E p \in CropPoints : AreaMouseDown(p)
  \/ \E p \in CropPoints : BoxMouseDown(p)
  \/ \E p \in CropPoints, handle \in Handles : HandleMouseDown(p, handle)
  \/ \E p \in CropPoints : HandleMouseMove(p)
  \/ HandleMouseUp
  \/ \E window \in SessionWindows :
       cropModal = "ready" /\ Exact(CropImage, window) /\ ResetCrop(window)

CropSpec == Init /\ [][CropNext]_vars

\* The crop editor between the tag modal and the save: opening it on images
\* and windows of every sampled size, reset, apply, cancel and the save that
\* follows.
CropModalNext ==
  \/ OpenTagModalStart
  \/ OpenTagModalFinish
  \/ \E m \in Modals : CloseClick(m)
  \/ \E m \in Modals, c \in Calls : SaveClick(m, c)
  \/ \E m \in Modals : OpenCropModal(m)
  \/ \E pair \in AllInputs : CropImageLoads(pair[1], pair[2])
  \/ \E window \in AllWindows :
       cropModal = "ready" /\ Exact(CropImage, window) /\ ResetCrop(window)
  \/ ApplyCrop
  \/ CloseCropModal

CropModalSpec == Init /\ [][CropModalNext]_vars

-----------------------------------------------------------------------------
(* Properties of the outbox and the retry cycle *)

\* No SAVE_TAG handler, processOutbox run or scheduleRetry callback is
\* in progress.
Quiet ==
  /\ \A d \in Delivers : dl[d].pc \in {"idle", "done"}
  /\ \A f \in Flushes : fl[f].pc \in {"idle", "done"}
  /\ retryPending = 0

\* Records whose handler answered queued.
ReportedQueued == {d \in Delivers : dl[d].outcome = "queued"}

\* C1: for every interleaving of enqueues and flush cycles, an entry leaves
\* the Outbox only after a delivery attempt for it returned HTTP success; in
\* particular the write that ends a flush removes no entry that was not
\* accepted by the collector, so an entry enqueued while the flush was
\* suspended on a network call is still in the Outbox after that write.
C1_EntryLeavesOnlyOnSuccess ==
  [][\A f \in Flushes :
       (fl[f].pc = "write" /\ fl'[f].pc = "done")
       => \A r \in Range(outbox) : r \in Range(outbox') \/ r \in accepted']_vars

\* The POSTs of cycle f that returned HTTP success are for record r.
SucceededIn(f, r) ==
  \E i \in DOMAIN fl[f].posts : fl[f].posts[i][1] = r /\ fl[f].posts[i][3] = "ok"

\* The entries of the snapshot of cycle f whose delivery failed in the cycle,
\* in snapshot order.
FailedIn(f) ==
  LET Failed(r) == ~SucceededIn(f, r) IN SelectSeq(fl[f].snap, Failed)

\* Number of POSTs of cycle f for record r to endpoint e (1 primary, 2
\* secondary).
PostCount(f, r, e) ==
  Cardinality({i \in DOMAIN fl[f].posts :
                 fl[f].posts[i][1] = r /\ fl[f].posts[i][2] = e})

\* C2: a flush that runs with no concurrent change of the Outbox leaves in
\* the Outbox exactly the entries whose delivery failed in this cycle, in
\* their original order; entries for which either endpoint returned success
\* are dropped; each entry is attempted once per cycle (one primary POST, at
\* most one secondary POST).
C2_FlushKeepsExactlyFailed ==
  [][\A f \in Flushes :
       (fl[f].pc = "write" /\ fl'[f].pc = "done" /\ outbox = fl[f].snap)
       => /\ outbox' = FailedIn(f)
          /\ \A r \in Range(fl[f].snap) :
               PostCount(f, r, 1) = 1 /\ PostCount(f, r, 2) <= 1]_vars

\* A cycle over two entries ended with both retained after a failed delivery
\* and nothing else has changed the Outbox since.
C2_Witness ==
  \E f \in Flushes :
    /\ fl[f].pc = "done" /\ fl[f].wrote
    /\ Len(fl[f].remain) = 2 /\ outbox = fl[f].remain

-----------------------------------------------------------------------------
(* Properties of deliver() *)

\* Handler d takes the step that sends its response.
Answers_(d) == dl[d].pc # "done" /\ dl'[d].pc = "done"

\* C3: when the POST to the primary endpoint throws, deliver() answers
\* queued with the error detail, the Outbox holds exactly one more entry
\* than before, the record appended at the end, and the retry scheduler is
\* armed (the alarm exists or its creation has been requested).
C3_ThrowEnqueuesOneEntry ==
  [][\A d \in Delivers :
       (Answers_(d) /\ dl[d].pRes = "throw")
       => /\ dl'[d].outcome = "queued"
          /\ dl'[d].err = "primary_exception"
          /\ outbox' = Append(outbox, d)
          /\ (alarm' \/ retryPending' > 0)]_vars

\* Handler d has seen an HTTP success from one of the two endpoints.
GotSuccess(d) == dl[d].pRes = "ok" \/ dl[d].sRes = "ok"

\* C4: when the primary endpoint, or after a primary non-success the
\* secondary endpoint, returns HTTP success, deliver() answers delivered and
\* never enqueues or requests a retry; every step of a call other than the
\* one that answers queued leaves the Outbox, the alarm and the pending
\* alarm requests exactly as they were.
C4_SuccessLeavesOutboxAlone ==
  /\ [](\A d \in Delivers :
          GotSuccess(d)
          => /\ dl[d].outcome # "queued" /\ ~dl[d].wrote /\ ~dl[d].armReq
             /\ dl[d].pc \in {"json", "done"}
             /\ dl[d].pc = "done" => dl[d].outcome = "delivered")
  /\ [][\A d \in Delivers :
          (dl'[d] # dl[d] /\ dl'[d].outcome # "queued")
          => UNCHANGED <<outbox, alarm, retryPending>>]_vars

\* A record was delivered through the secondary endpoint while another
\* record sat in the Outbox with the alarm armed.
C4_Witness ==
  \E d \in Delivers :
    /\ dl[d].pc = "done" /\ dl[d].pRes = "fail" /\ dl[d].sRes = "ok"
    /\ dl[d].outcome = "delivered"
    /\ outbox # <<>> /\ alarm

\* C5: in deliver() the secondary endpoint is POSTed if and only if the
\* primary endpoint answered with a non-success status: never after a
\* primary success and never after a primary exception.
C5_SecondaryIffPrimaryRejected ==
  \A d \in Delivers :
    /\ dl[d].posted2 <=> dl[d].pRes = "fail"
    /\ dl[d].sRes # "none" => dl[d].posted2
    /\ dl[d].pc \in {"secondary", "json"} => dl[d].posted2

\* One call went to the secondary endpoint after a primary rejection, and
\* another ended queued after a primary exception without contacting it.
C5_Witness ==
  \E d, e \in Delivers :
    /\ dl[d].pRes = "fail" /\ dl[d].sRes # "none"
    /\ dl[e].pRes = "throw" /\ dl[e].pc = "done" /\ ~dl[e].posted2

-----------------------------------------------------------------------------
(* Properties of the retry timer *)

\* C8: the retry timer is cancelled by every flush that leaves the Outbox
\* empty, and in every state where the Outbox is empty and no deliver(),
\* flush() or scheduleRetry step is in progress the timer is not armed.
C8_NoTimerOnEmptyOutbox ==
  /\ \A f \in Flushes :
       (fl[f].pc = "done" /\ fl[f].wrote /\ fl[f].remain = <<>>)
       => fl[f].alarmTouched
  /\ (Quiet /\ outbox = <<>>) => ~alarm

\* The Outbox is drained for good: it is empty, the timer is cancelled and
\* every record reported queued was accepted by the collector.
Drained ==
  /\ outbox = <<>>
  /\ ~alarm
  /\ ReportedQueued \subseteq accepted

\* C9: if from some point on the collector accepts every POST (and handler
\* steps, callbacks and alarm firings keep running), every record ever
\* reported queued is eventually delivered, the Outbox eventually becomes
\* empty and the timer is eventually cancelled.
C9_EventuallyDrained == <>[]up => <>[]Drained

\* C10: flush() on an empty Outbox changes nothing: the step that reads the
\* empty Outbox ends the run without touching the Outbox, the alarm or the
\* pending alarm requests, and the run makes no POST and no write.
C10_FlushOnEmptyIsNoop ==
  /\ [][\A f \in Flushes :
          (fl[f].pc = "read" /\ fl'[f] # fl[f] /\ outbox = <<>>)
          => /\ fl'[f].pc = "done"
             /\ UNCHANGED <<outbox, alarm, retryPending, accepted>>]_vars
  /\ [](\A f \in Flushes :
          /\ fl[f].pc \in {"primary", "secondary", "write"} => fl[f].snap # <<>>
          /\ (fl[f].pc = "done" /\ ~fl[f].wrote)
             => fl[f].posts = <<>> /\ ~fl[f].alarmTouched)

\* A flush ran on an empty Outbox while the alarm was armed.
C10_Witness ==
  \E f \in Flushes :
    fl[f].pc = "done" /\ ~fl[f].wrote /\ outbox = <<>> /\ alarm

-----------------------------------------------------------------------------
(* Properties of the retry period *)

\* C11: whenever the retry alarm is armed, its period is max(1, stored
\* autoRetryMinutes), with a stored 0 or a missing value counting as 1; an
\* existing alarm never has a period below 1 minute.
C11_PeriodAtLeastOne ==
  /\ [](alarm => alarmPeriod >= 1)
  /\ [][retryPending' < retryPending =>
          /\ alarm'
          /\ alarmPeriod' = (IF storedMinutes.has /\ storedMinutes.v > 1
                             THEN storedMinutes.v ELSE 1)]_vars

\* The alarm was armed while a negative autoRetryMinutes was stored.
C11_Witness ==
  /\ alarm /\ alarmPeriod = 1
  /\ retryPending = 0
  /\ storedMinutes = Minutes(-1)
  /\ outbox # <<>>

-----------------------------------------------------------------------------
(* Properties of rpc() and of saving from the tag modal *)

\* C12: a call whose timer fires before any callback ran is rejected with
\* the timeout error, and no call stays pending forever.
C12_TimeoutRejects ==
  /\ [][\A c \in Calls :
          (rp[c].timer = "armed" /\ rp'[c].timer = "fired") =>
            /\ rp'[c].st = "rejected"
            /\ rp'[c].value = Rejection("RPC timeout")]_vars
  /\ \A c \in Calls : (rp[c].st = "pending") ~> (rp[c].st # "pending")

\* A call was rejected by its timer while its handler had not answered.
C12_Witness ==
  \E c \in Calls :
    /\ rp[c].st = "rejected"
    /\ rp[c].value = Rejection("RPC timeout")
    /\ rp[c].cb = "waiting"
    /\ dl[c].pc \notin {"idle", "done"}

HandlerReportedFailure(c) ==
  rp[c].cb = "response" /\ dl[c].outcome \in {"queued", "failed"}

\* C14 as stated: whenever the callback ran with lastError the call is
\* rejected with that error, and whenever it ran with a failure response the
\* call is resolved with that response (ok = false and an error text).
C14_Original_NoFailureDropped ==
  \A c \in Calls :
    /\ rp[c].cb = "lastError" =>
         rp[c].st = "rejected" /\ rp[c].value = Rejection("lastError")
    /\ HandlerReportedFailure(c) =>
         /\ rp[c].st = "resolved"
         /\ ~rp[c].value.ok /\ rp[c].value.error # "none"

\* C14: for a callback that ran before the timer fired, a transport failure
\* (lastError) rejects the call with that error, and a failure reported by
\* the handler resolves it with a response that has ok = false and an error
\* text; the two are never confused.
C14_FailureShapes ==
  \A c \in Calls :
    rp[c].timer # "fired" =>
      /\ rp[c].cb = "lastError" =>
           rp[c].st = "rejected" /\ rp[c].value = Rejection("lastError")
      /\ HandlerReportedFailure(c) =>
           /\ rp[c].st = "resolved"
           /\ rp[c].value.kind = "response"
           /\ ~rp[c].value.ok /\ rp[c].value.error # "none"

\* A call was resolved with the failure its handler reported.
C14_Witness ==
  \E c \in Calls :
    /\ HandlerReportedFailure(c)
    /\ rp[c].st = "resolved"
    /\ rp[c].value.queued
    /\ rp[c].value.error = "HTTP_status"

\* C15: every save attempt whose handler has finished has shown the user a
\* status: the closing modal of a saved record, or the alert of a queued or
\* failed one.
C15_SaveEndsWithStatus ==
  \A c \in Calls : sv[c].phase = "handled" => sv[c].shown # "none"

\* The response handling of save attempt c runs, or its 400 ms timer fires,
\* for a response handled after the modal of the attempt had left the
\* document.
StaleSaveStep(c) ==
  \/ sv[c].phase = "awaiting" /\ sv'[c].phase = "handled"
       /\ sv[c].owner \notin inDoc
  \/ sv[c].closer = "armed" /\ sv'[c].closer = "fired" /\ sv[c].stale

\* C16: the response to a save whose modal has been closed changes no modal
\* that is in the document.
C16_StaleResponseDisregarded ==
  [][\A c \in Calls : StaleSaveStep(c) => inDoc' = inDoc]_vars

-----------------------------------------------------------------------------
(* Properties of the region selector *)

\* Every Rect the selector holds or has handed to captureScreenshot.
ProducedRects ==
  (IF selRect = NoRect THEN {} ELSE {selRect})
    \cup (IF capture.rect = NoRect THEN {} ELSE {capture.rect})

\* C17: every candidate Rect the RegionSelector computes, and the Rect it
\* hands to capture, is square (w = h); a newly computed candidate has side
\* max(|dx|, |dy|) measured from the anchor to the mouse position, and the
\* Rect handed to capture is the last candidate.
C17_RectIsSquare ==
  /\ [](\A r \in ProducedRects : r.w = r.h)
  /\ [][/\ selRect' # selRect /\ selRect' # NoRect =>
             /\ selRect'.w = Max2(Abs(pointer'[1] - startPt[1]),
                                  Abs(pointer'[2] - startPt[2]))
             /\ selRect'.h = selRect'.w
        /\ capture'.calls > capture.calls => capture'.rect = selRect]_vars

\* A capture was started for a Rect whose side is the vertical distance,
\* larger than the horizontal one.
C17_Witness ==
  /\ capture.state = "running"
  /\ capture.rect = selRect
  /\ selRect.w = Abs(pointer[2] - startPt[2])
  /\ Abs(pointer[1] - startPt[1]) < Abs(pointer[2] - startPt[2])
  /\ Abs(pointer[1] - startPt[1]) > 0

\* C18: with every mouse position inside the surface, every Rect the
\* selector produces lies inside the surface: x >= 0, y >= 0,
\* x + w <= surface width, y + h <= surface height.
C18_RectInsideSurface ==
  \A r \in ProducedRects :
    /\ r.x >= 0
    /\ r.y >= 0
    /\ r.x + r.w <= SurfaceW
    /\ r.y + r.h <= SurfaceH

\* C19: at mouseup a selection with no Rect, or a Rect narrower than the
\* minimum, is discarded: no capture starts, no error tip appears, overlay
\* and listeners are removed.  A session starts at most one capture, and only
\* for a Rect with w >= the minimum.
C19_SmallSelectionIsCancel ==
  /\ [][(/\ selEnd = "open" /\ selEnd' = "mouseup"
         /\ (selRect = NoRect \/ selRect.w < MinSelectionSize))
        => /\ capture' = capture
           /\ ~listening' /\ ~overlayShown']_vars
  /\ [](/\ capture.calls <= 1
        /\ capture.state # "none" =>
             /\ capture.calls = 1
             /\ capture.rect # NoRect
             /\ capture.rect.w >= MinSelectionSize)
  /\ [](selEnd = "mouseup" => ~listening /\ ~overlayShown)

\* A drag that produced a Rect narrower than the minimum was ended by
\* mouseup, and no capture was started.
C19_Witness ==
  /\ selEnd = "mouseup"
  /\ isSelecting
  /\ selRect # NoRect /\ selRect.w > 0 /\ selRect.w < MinSelectionSize
  /\ capture.state = "none"

\* C20: once Escape was pressed in a selection session, that session starts
\* no capture, and overlay, listeners and scroll lock are removed.
C20_EscapeAborts ==
  selEnd = "escape" =>
    /\ capture = NoCapture
    /\ ~listening
    /\ ~overlayShown
    /\ ~scrollLocked

\* Escape was pressed in the middle of a drag whose Rect was large enough to
\* capture.
C20_Witness ==
  /\ selEnd = "escape"
  /\ isSelecting
  /\ selRect # NoRect /\ selRect.w >= MinSelectionSize

-----------------------------------------------------------------------------
(* Capture strategies *)

\* capture(rect) of the module has settled.
CaptureDone == cap.pc = "done" /\ cap.tried # <<"inline">>

\* The native strategy was attempted and ended with an Error.
NativeErrored ==
  CaptureDone /\ cap.tried[1] = "native" /\ cap.last.kind = "thrown"

\* C21: when the native strategy is attempted and errors (the privileged
\* context answers ok = false, answers without a raster, or the snapshot does
\* not load), capture(rect) goes on to the DOM strategy and resolves to a
\* successful result with a placeholder image: the flow opens the tag modal.
C21_NativeErrorFallsBack ==
  NativeErrored =>
    /\ cap.tried = <<"native", "dom">>
    /\ cap.out.success
    /\ cap.flow = "modal"

\* C22: when the native strategy is unavailable, the fallback resolves to a
\* successful result with a rect.w x rect.h placeholder for every rect, and
\* fails only if a canvas primitive throws.
C22_FallbackSucceeds ==
  (cap.pc = "done" /\ cap.tried[1] # "native") =>
    \/ cap.canvasThrew /\ ~cap.out.success
    \/ /\ cap.out.success
       /\ cap.out.w = cap.rect.w
       /\ cap.out.h = cap.rect.h

NativeSuccess ==
  CaptureDone /\ cap.tried = <<"native">> /\ cap.out.success

\* s is v * n / d rounded to the nearest integer.
WithinHalf(s, v, n, d) == 2 * Abs(s * d - v * n) <= d

\* C24 as stated: for every rect and every ratio between snapshot and
\* viewport, the image of the native strategy is rect.w wide and rect.h high.
C24_Original_OutputIsRectSize ==
  NativeSuccess =>
    cap.out.w = cap.rect.w /\ cap.out.h = cap.rect.h

\* C24, amended: the image of the native strategy is sw wide and sh high,
\* where (sx, sy, sw, sh) is the rect scaled by naturalSize / viewportSize
\* and rounded; it has the size of the rect when the ratio is 1.
C24_OutputIsScaledSource ==
  NativeSuccess =>
    /\ cap.out.w = cap.out.src.sw
    /\ cap.out.h = cap.out.src.sh
    /\ WithinHalf(cap.out.src.sx, cap.rect.x, cap.natural.w, SurfaceW)
    /\ WithinHalf(cap.out.src.sw, cap.rect.w, cap.natural.w, SurfaceW)
    /\ WithinHalf(cap.out.src.sy, cap.rect.y, cap.natural.h, SurfaceH)
    /\ WithinHalf(cap.out.src.sh, cap.rect.h, cap.natural.h, SurfaceH)
    /\ cap.natural.w = SurfaceW => cap.out.w = cap.rect.w
    /\ cap.natural.h = SurfaceH => cap.out.h = cap.rect.h

C24_Witness ==
  /\ NativeSuccess
  /\ cap.natural.w = 2 * SurfaceW
  /\ cap.out.w = 2 * cap.rect.w
  /\ cap.out.src.sx = 2 * cap.rect.x
  /\ cap.rect.x > 0

-----------------------------------------------------------------------------
(* Crop editor *)

\* The crop rectangle lies inside the container.
InsideContainer ==
  /\ 0 <= cropData.cropX
  /\ 0 <= cropData.cropY
  /\ cropData.cropX + cropData.cropWidth <= cropData.containerWidth
  /\ cropData.cropY + cropData.cropHeight <= cropData.containerHeight

\* C25: in every state of an initialized crop editor, after initialization
\* for any image and display size and after any sequence of draw, drag,
\* resize, pointer-up and reset events, the crop rectangle lies inside the
\* container.
C25_CropInsideContainer ==
  cropModal = "ready" => InsideContainer

\* C26: while every interaction since the initialization was a Resize, on
\* any handle and with any displacement, the crop rectangle lies inside the
\* container and its width and height are at least 20.
C26_ResizeKeepsBoundsAndFloor ==
  (cropModal = "ready" /\ cropHist.resizeOnly) =>
    /\ InsideContainer
    /\ cropData.cropWidth >= 20
    /\ cropData.cropHeight >= 20

\* A save has been started whose tag modal shows a cropped image: applyCrop()
\* ran on it before the save button was clicked.
SavedAfterCrop(c) ==
  /\ payload[c] = NoImage
  /\ payload'[c] # NoImage
  /\ previewSrc[sv'[c].owner] = CroppedImage

\* C27: after applyCrop() the cropped raster is the working image of the tag
\* modal: the record built by a later save carries the cropped image, not
\* the image from before the crop, and the crop editor is closed.
C27_SaveCarriesCroppedImage ==
  [][/\ \A c \in Calls : SavedAfterCrop(c) => payload'[c] = CroppedImage
     /\ (\E m \in Modals : previewSrc'[m] # previewSrc[m]) =>
          cropModal' = "none"]_vars

\* The interaction modes whose flag is set.
ActiveModes ==
  {mode \in {"draw", "drag", "resize"} :
     \/ mode = "draw" /\ cropData.isDrawing
     \/ mode = "drag" /\ cropData.isDragging
     \/ mode = "resize" /\ cropData.isResizing}

\* C28: in every state of the crop editor at most one of the modes Draw,
\* Drag and Resize is active, for every sequence of pointer-down, move and
\* pointer-up events, two pointer-downs with no pointer-up between them
\* included.  (That a move acts through one mode only is the if / else if
\* chain of handleMouseMove.)
C28_AtMostOneMode ==
  cropModal = "ready" => Cardinality(ActiveModes) <= 1

\* C29: after every completed Draw interaction (pointer-down outside the crop
\* box, any number of moves including none, pointer-up) the crop rectangle
\* has a corner at the down-point and width >= 1 and height >= 1.
C29_DrawAnchoredAndVisible ==
  (cropModal = "ready" /\ cropHist.draw = "completed") =>
    /\ cropData.cropWidth >= 1
    /\ cropData.cropHeight >= 1
    /\ \/ cropData.cropX = cropHist.downX
       \/ cropData.cropX + cropData.cropWidth = cropHist.downX
    /\ \/ cropData.cropY = cropHist.downY
       \/ cropData.cropY + cropData.cropHeight = cropHist.downY

\* size is display * 0.6 limited to 50..300 and start centres it.
CentredClamp(display, size, start) ==
  /\ 6 * display < 500 => size = 50
  /\ 6 * display > 3000 => size = 300
  /\ (500 <= 6 * display /\ 6 * display <= 3000) => 10 * size = 6 * display
  /\ 2 * start = display - size

\* C30: for every image and display size the initial crop window is centred
\* in the display area and has, per axis, the size clamp(0.6 * displaySize,
\* 50, 300).
C30_InitialWindow ==
  (cropModal = "ready" /\ cropHist.fresh) =>
    /\ CentredClamp(cropData.containerWidth, cropData.cropWidth,
                    cropData.cropX)
    /\ CentredClamp(cropData.containerHeight, cropData.cropHeight,
                    cropData.cropY)

C30_Witness ==
  /\ cropModal = "ready"
  /\ cropHist.fresh
  /\ cropData.containerWidth = 800
  /\ cropData.cropWidth = 300
  /\ cropData.cropX = 250
  /\ cropData.containerHeight = 400
  /\ cropData.cropHeight = 240
  /\ cropData.cropY = 80

-----------------------------------------------------------------------------
(* Properties of applyCrop, cancel and reset *)

\* applyCrop() has cut the crop box of an initialized editor, and the box
\* was inside the container.
CutInside ==
  /\ cropCanvas.drawn
  /\ cropCanvas.from.containerWidth > 0
  /\ cropCanvas.from.containerHeight > 0
  /\ 0 <= cropCanvas.from.cropX
  /\ 0 <= cropCanvas.from.cropY
  /\ cropCanvas.from.cropX + cropCanvas.from.cropWidth
       <= cropCanvas.from.containerWidth
  /\ cropCanvas.from.cropY + cropCanvas.from.cropHeight
       <= cropCanvas.from.containerHeight

\* The canvas edge at num / den + size natural pixels and the crop box edge
\* at `edge` display pixels, `natural` image pixels shown on `container`
\* display pixels: their distance, times den * container in natural pixels
\* and times den * natural in display pixels.
EdgeGap(num, den, size, edge, natural, container) ==
  Abs((num + size * den) * container - edge * natural * den)

\* The four edges of the canvas lie within `px` display pixels (display
\* TRUE) or `px` natural pixels (display FALSE) of the edges of the crop box.
EdgesWithin(display) ==
  LET c == cropCanvas
      d == c.from
      unitX == IF display THEN c.xDen * d.imageWidth
               ELSE c.xDen * d.containerWidth
      unitY == IF display THEN c.yDen * d.imageHeight
               ELSE c.yDen * d.containerHeight
  IN /\ EdgeGap(c.xNum, c.xDen, 0, d.cropX,
                 d.imageWidth, d.containerWidth) <= unitX
     /\ EdgeGap(c.xNum, c.xDen, c.width, d.cropX + d.cropWidth,
                 d.imageWidth, d.containerWidth) <= unitX
     /\ EdgeGap(c.yNum, c.yDen, 0, d.cropY,
                 d.imageHeight, d.containerHeight) <= unitY
     /\ EdgeGap(c.yNum, c.yDen, c.height, d.cropY + d.cropHeight,
                 d.imageHeight, d.containerHeight) <= unitY

\* C31 as stated: the rectangle applyCrop() cuts, mapped back through the
\* display scale, is within one display pixel of the displayed crop box on
\* each edge.
C31_Original_WithinOneDisplayPixel == CutInside => EdgesWithin(TRUE)

\* C31 (amended): the rectangle applyCrop() cuts is within one pixel of the
\* image, on each edge, of the crop box times naturalSize / containerSize.
C31_WithinOneNaturalPixel == CutInside => EdgesWithin(FALSE)

\* applyCrop() has cut a box of an image shown enlarged whose natural width
\* is not a whole number of pixels.
C31_Witness ==
  /\ CutInside
  /\ cropCanvas.from.containerWidth > cropCanvas.from.imageWidth
  /\ (cropCanvas.from.cropWidth * cropCanvas.from.imageWidth)
       % cropCanvas.from.containerWidth # 0

\* A step that closes the crop editor without applying: closeCropModal()
\* from the cancel or the close button, no canvas drawn.
ClosedWithoutApply ==
  /\ cropModal # "none"
  /\ cropModal' = "none"
  /\ cropCanvas' = cropCanvas

\* C32: closing the crop editor without applying leaves the image of every
\* tag modal unchanged and shows the tag modal again, and in every state a
\* tag modal in the document is hidden exactly while a crop editor is open.
C32_CancelRestoresTagModal ==
  [][/\ ClosedWithoutApply =>
          /\ previewSrc' = previewSrc
          /\ \A m \in inDoc' : m \notin hidden'
      /\ \A m \in inDoc' : (m \in hidden') <=> (cropModal' # "none")]_vars

\* C33: a reset in a browser window of the size the editor was constructed
\* in puts the crop rectangle back to the initial window computed at
\* construction, whatever draw, drag and resize interactions came before,
\* and a second reset then changes nothing in cropData.
C33_ResetRestoresInitialWindow ==
  [][LET window == [w |-> cropHist.initial.w, h |-> cropHist.initial.h]
     IN (cropModal = "ready" /\ ResetCrop(window))
        => /\ CropWindow(cropData', window) = cropHist.initial
           /\ InitializeCrop(Released(cropData'), CropImage', window)
                = cropData']_vars

\* A reset has undone a change of the crop window and a second reset
\* followed it.
C33_Witness ==
  /\ cropModal = "ready"
  /\ cropHist.reset = "again"
  /\ CropWindow(cropData, [w |-> cropHist.initial.w,
                           h |-> cropHist.initial.h]) = cropHist.initial

-----------------------------------------------------------------------------
(* Properties of fetchSchema *)

\* The first n elements of sequence q.
Prefix(q, n) == [i \in 1..n |-> q[i]]

\* The candidates in their fixed order: the configured endpoint, when one
\* is set, before the four defaults.
CandidateOrder(endpoints) ==
  \/ endpoints = DefaultEndpoints
  \/ /\ Len(endpoints) = Len(DefaultEndpoints) + 1
     /\ endpoints[1] \in {Trim(e) : e \in SchemaEndpointSettings} \ {""}
     /\ Tail(endpoints) = DefaultEndpoints

AllCandidatesFailed(f) ==
  /\ fs[f].pc = "done"
  /\ fs[f].firstValid = 0
  /\ fs[f].contacted = fs[f].endpoints

\* C35: a handler whose candidates all failed has returned the schema that
\* was cached when it looked, and an error with a message when none was; it
\* never answers ok with another schema, and none of its steps changes the
\* cached schema.
C35_FallbackToCache ==
  [][\A f \in SchemaFetches :
       /\ AllCandidatesFailed(f)' =>
            /\ fs'[f].r.sent = 1
            /\ ~fs'[f].read.null =>
                 /\ fs'[f].r.ok
                 /\ fs'[f].r.schema = fs'[f].read
            /\ fs'[f].read.null =>
                 /\ ~fs'[f].r.ok
                 /\ fs'[f].r.error \notin {NoError, ""}
            /\ fs'[f].r.ok => ~fs'[f].r.schema.null
       /\ (fs'[f] # fs[f] /\ fs'[f].firstValid = 0) =>
            cachedSchema' = cachedSchema]_vars

\* All candidates of a handler failed while a schema was cached by an
\* earlier fetch, and the handler returned it.
C35_Witness ==
  \E f \in SchemaFetches :
    /\ AllCandidatesFailed(f)
    /\ Len(fs[f].endpoints) = Len(DefaultEndpoints) + 1
    /\ ~fs[f].read.null
    /\ fs[f].r.schema = fs[f].read
    /\ \E g \in SchemaFetches : fs[g].firstValid # 0 /\ fs[g].pc = "done"

-----------------------------------------------------------------------------
(* Properties of concurrent enqueues and of the retry timer *)

\* Record d is before record e in the sequence q.
Before(q, d, e) ==
  \E i, j \in DOMAIN q : i < j /\ q[i] = d /\ q[j] = e

\* C36: when the enqueue of a failed deliver() call e completes after the
\* enqueue of another failed call d, overlapping with it or not, and no
\* flush has rewritten the Outbox, both records are in the Outbox, d before
\* e: the append of e has not overwritten the append of d.
C36_OverlappingEnqueuesBothKept ==
  [][\A d, e \in Delivers :
       (/\ d # e
        /\ dl[d].pc = "done" /\ dl[d].outcome = "queued"
        /\ Answers_(e) /\ dl'[e].outcome = "queued"
        /\ \A f \in Flushes : ~fl'[f].wrote)
       => Before(outbox', d, e)]_vars

\* C37: in every state where the Outbox is not empty and no deliver(), no
\* flush() and no scheduleRetry callback is in progress, the retry timer is
\* armed.
C37_QueuedRecordHasTimer == (Quiet /\ outbox # <<>>) => alarm

-----------------------------------------------------------------------------
(* Properties of the Resize interaction and of the selection *)

\* The crop rectangle of cropData.
Box(data) == <<data.cropX, data.cropY, data.cropWidth, data.cropHeight>>

\* A step that starts a Resize interaction and no other: a pointer-down on
\* a handle while neither Draw nor Drag is active.
ResizeStarts ==
  /\ cropHist'.downs = cropHist.downs + 1
  /\ cropData'.isResizing
  /\ ~cropData'.isDrawing
  /\ ~cropData'.isDragging

\* C38: from the pointer-down of a Resize interaction, a move event at p
\* followed by a move event at q gives the crop rectangle that the single
\* move event at q gives: the rectangle depends only on the rectangle at
\* pointer-down and the final pointer position.
C38_ResizeDependsOnFinalPosition ==
  [][ResizeStarts =>
       \A p, q \in CropPoints :
         Box(HandleResize(HandleResize(cropData', p), q))
           = Box(HandleResize(cropData', q))]_vars

\* Point p is one of the four corners of rect.
IsCorner(p, rect) ==
  /\ p[1] \in {rect.x, rect.x + rect.w}
  /\ p[2] \in {rect.y, rect.y + rect.h}

\* C39: the Rect handed to captureScreenshot has the point of the most
\* recent pointer-down of its session as one of its corners.
C39_CapturedRectFromLastDown ==
  capture.state # "none" => IsCorner(startPt, capture.rect)

-----------------------------------------------------------------------------
(* One response per request (background.js, onMessage listener) *)

\* Every request of the three kinds has no response while it is handled
\* and one response once it is handled.
OneResponseEach ==
  /\ \A d \in Delivers :
       dl[d].sent = IF dl[d].pc = "done" THEN 1 ELSE 0
  /\ \A f \in SchemaFetches :
       fs[f].r.sent = IF fs[f].pc = "done" THEN 1 ELSE 0
  /\ \A h \in Handlers :
       hs[h].sent = IF hs[h].pc = "done" THEN 1 ELSE 0

\* A handled SAVE_TAG has answered one of delivered, queued and failed, the
\* last two with an error.
SaveTagOutcome ==
  \A d \in Delivers :
    dl[d].pc = "done" =>
      /\ dl[d].outcome \in {"delivered", "queued", "failed"}
      /\ dl[d].outcome # "delivered" => dl[d].err # "none"

\* A storage or network step of SAVE_TAG request d has thrown.
DeliverThrew(d) ==
  \/ dl[d].pRes = "throw"
  \/ dl[d].sRes = "throw"
  \/ dl[d].err = "storage_exception"

\* The last failure of FETCH_SCHEMA request f was a step that threw.
FetchThrewLast(f) == fs[f].lastErr \in {FetchThrew, JsonThrew, StorageThrew}

OuterCatchAnswersError ==
  /\ \A f \in SchemaFetches :
       FetchSchemaStorageThrows(f) =>
         ~fs'[f].r.ok /\ fs'[f].r.error = StorageThrew
  /\ \A d \in Delivers :
       DeliverStorageThrows(d) =>
         dl'[d].outcome = "failed" /\ dl'[d].err = "storage_exception"

====
